---- MODULE Spec2Model ----
(***************************************************************************)
(* A model of audio2sub's pipeline orchestration and AI batch-request      *)
(* protocol: the retry loop (ai.py), the chunk partition helpers, the      *)
(* response parsers, translate(), align() and the transcribe() pipeline.   *)
(***************************************************************************)
EXTENDS Integers, Sequences, FiniteSets, TLC

(***************************************************************************)
(* Bounds of the model.                                                    *)
(***************************************************************************)
MaxRetries == 2

MaxLen == 3

MaxEntries == 2

MaxOps == 3

(***************************************************************************)
(* Small helpers.                                                          *)
(***************************************************************************)
None == "None"

\* An optional integer: the empty set for Python's None, {n} for the integer n.
NoInt == {}

SomeInt(n) == {n}

IntOf(o) == CHOOSE n \in o : TRUE

Max(a, b) == IF a >= b THEN a ELSE b

Min(a, b) == IF a <= b THEN a ELSE b

VARIABLES
    \* ---- AIBackendBase._retry (ai.py:110-134) ----
    plan,        \* what fn does on its 1st, 2nd, ... invocation
    retries,     \* the retries argument (None or an integer)
    r_pc,        \* position in _retry
    attempt,     \* the loop variable of line 119
    calls,       \* number of invocations of fn so far
    sleeps,      \* number of time.sleep calls so far
    slept,       \* the time slept so far, in milliseconds
    last_exc,    \* the local last_exc
    r_result,    \* value returned by _retry (None until it returns)
    r_error,     \* exception raised by _retry (None until it raises)
    \* ---- the chunk partition generators ----
    c_kind,      \* which generator is iterated
    c_items,     \* its items / segments argument
    c_reference, \* the reference argument (_iter_alignment_chunks)
    c_size,      \* its size / chunk_size argument
    c_yielded,   \* what it has yielded so far, in yield order
    c_pc,        \* "iter", "done" (exhausted) or "error" (it raised)
    \* ---- _parse_response_text ----
    p_kind,      \* whose parser: "translator", "transcriber" or "aligner"
    p_raw,       \* the raw_text argument, as the JSON document it holds
    p_before,    \* the batch as it was when the parser was called
    p_batch,     \* the batch (its Segment objects are updated in place)
    p_pc,        \* "ready", "done" (returned) or "error" (raised)
    p_error,     \* the exception raised (None if none)
    \* ---- translate() and align() ----
    b_op,        \* "translate" or "align"
    b_api_key,   \* self.api_key, as given at construction ("" if none)
    b_env_key,   \* the value of the backend's environment variable ("" if unset)
    b_client,    \* self._client (None until created)
    b_input,     \* the segments argument as it was when the call began
    b_segments,  \* the segments argument: the Segment objects, updated in place
    b_reference, \* the reference argument (align)
    b_chunk,     \* the chunk argument (None or an integer)
    b_pc,        \* position in the operation
    b_k,         \* which chunk the loop is at (1 for the first)
    b_request,   \* input_data of the provider request of the chunk at hand
    b_sent,      \* number of chunks a provider request was made for
    b_usage,     \* usage_tracker
    b_stats,     \* the caller's stats mapping
    b_result,    \* result: places (in segments) of the Segment objects it holds
    b_error,     \* the exception the operation raised (None if none)
    \* ---- transcribe(), the pipeline (transcribe.py) ----
    t_exists,    \* whether input_media exists
    t_reporter,  \* whether a reporter was passed
    t_credential, \* whether the transcriber can get the API key it needs
    t_pc,        \* position in transcribe()
    t_tmpdir,    \* the scratch directory: "none", "exists" or "removed"
    t_files,     \* the files in the scratch directory
    t_detected,  \* what detector.detect returned
    t_segments,  \* segments: the detector's Segment objects, updated in place
    t_next,      \* place of the next segment to cut, then to transcribe
    t_calls,     \* number of calls of each collaborator so far
    t_events,    \* the reporter's calls, in order
    t_completed, \* completed
    t_result,    \* transcribed_segments: places (in segments) of its objects
    t_error,     \* the exception transcribe() raised (None if none)
    \* ---- a backend instance and its caller (ai.py, cli/) ----
    k_caller,    \* "subtranslator", "subaligner" (the tools) or "library"
    k_op,        \* the batch operation called
    k_retries,   \* the --retries value of the command line
    k_api_key,   \* self.api_key, as given at construction ("" if none)
    k_env_key,   \* the value of the backend's environment variable ("" if unset)
    k_sdk,       \* whether the provider's package can be imported
    k_pc,        \* position of the caller
    k_read,      \* number of subtitle files read so far
    k_opts,      \* names of the keyword options passed to the operation
    k_client,    \* self._client: None, or the key the client was created with
    k_created,   \* number of runs of _create_client so far
    k_ops,       \* number of operation calls begun so far
    k_requests,  \* number of provider requests issued so far
    k_max_retries, \* max_retries of the last request's _retry (none if none)
    k_attempts,  \* number of attempts the last request made
    k_error,     \* the exception the last call raised (None if none)
    \* ---- the subtitle codec (common.py) ----
    f_segments,  \* the segments argument of segments_to_srt
    f_srt,       \* srt: the SubRipFile being built
    f_file,      \* the items of the saved subtitle file
    f_read,      \* segments: the list srt_to_segments is building
    f_next,      \* place of the next element of the loop at hand
    f_pc         \* position: "write", "saved", "read" or "returned"

retryVars == <<plan, retries, r_pc, attempt, calls, sleeps, slept, last_exc, r_result, r_error>>

chunkVars == <<c_kind, c_items, c_reference, c_size, c_yielded, c_pc>>

parseVars == <<p_kind, p_raw, p_before, p_batch, p_pc, p_error>>

batchVars == <<b_op, b_api_key, b_env_key, b_client, b_input, b_segments, b_reference,
               b_chunk, b_pc, b_k, b_request, b_sent, b_usage, b_stats, b_result, b_error>>

pipeVars == <<t_exists, t_reporter, t_credential, t_pc, t_tmpdir, t_files, t_detected, t_segments,
              t_next, t_calls, t_events, t_completed, t_result, t_error>>

clientVars == <<k_caller, k_op, k_retries, k_api_key, k_env_key, k_sdk, k_pc, k_read, k_opts,
                k_client, k_created, k_ops, k_requests, k_max_retries, k_attempts, k_error>>

codecVars == <<f_segments, f_srt, f_file, f_read, f_next, f_pc>>

vars == <<retryVars, chunkVars, parseVars, batchVars, pipeVars, clientVars, codecVars>>

(***************************************************************************)
(* AIBackendBase._retry                                                    *)
(***************************************************************************)
\* ai.py:26
default_retries == 3

\* Results fn may return and exceptions (instances of Exception, the class
\* line 122 catches) it may raise; two of each, so identity is observable.
Values == {"v1", "v2"}

Excs == {"e1", "e2"}

Ok(v) == [kind |-> "ok", val |-> v]

Raise(e) == [kind |-> "exc", val |-> e]

Outcomes == {Ok(v) : v \in Values} \cup {Raise(e) : e \in Excs}

\* The retries arguments explored: None (use the default), a negative value
\* (the command line accepts any integer) and 0..MaxRetries.
RetriesArgs == {NoInt} \cup {SomeInt(n) : n \in (-1) .. MaxRetries}

\* Enough planned outcomes for the longest run of attempts.
PlanLen == Max(MaxRetries, default_retries) + 1

\* ai.py:117
max_retries_of(r) == IF r # NoInt THEN IntOf(r) ELSE default_retries

max_retries == max_retries_of(retries)

\* ai.py:119: the values range(max_retries + 1) runs through
AttemptRangeOffByOne(m) == 0 .. (m - 1)

AttemptRange(m) == 0 .. m

\* ai.py:123: last_exc = exc
KeepFirstExc(prev, exc) == IF prev = None THEN exc ELSE prev

RecordExc(prev, exc) == exc

\* ai.py:124: whether a failed attempt is followed by a sleep
ShouldSleep(a, m) == a < m

\* ai.py:108: _retry_delay, 0.5 s, in milliseconds
retry_delay == 500

\* ai.py:133 with a delay that grows with the attempt number
DelayGrowing(a) == retry_delay * (a + 1)

\* ai.py:133: time.sleep(self._retry_delay), whatever the attempt
Delay(a) == retry_delay

\* Entering the for loop with loop value a: either the body runs (the call of
\* line 121) or the loop is over and line 134 is reached.
LoopPc(a, m) == IF a \in AttemptRange(m) THEN "call" ELSE "raise"

RetryInit ==
    /\ plan \in [1 .. PlanLen -> Outcomes]
    /\ retries \in RetriesArgs
    /\ r_pc = LoopPc(0, max_retries_of(retries))
    /\ attempt = 0
    /\ calls = 0
    /\ sleeps = 0
    /\ slept = 0
    /\ last_exc = None
    /\ r_result = None
    /\ r_error = None

\* ai.py:120-124: one invocation of fn, whose outcome is o
RetryCall(o) ==
    /\ r_pc = "call"
    /\ calls' = calls + 1
    /\ IF o.kind = "ok"
       THEN /\ r_pc' = "returned"
            /\ r_result' = o.val
            /\ UNCHANGED <<attempt, last_exc>>
       ELSE /\ last_exc' = RecordExc(last_exc, o.val)
            /\ IF ShouldSleep(attempt, max_retries)
               THEN /\ r_pc' = "sleep"
                    /\ UNCHANGED attempt
               ELSE /\ attempt' = attempt + 1
                    /\ r_pc' = LoopPc(attempt + 1, max_retries)
            /\ UNCHANGED r_result
    /\ UNCHANGED <<plan, retries, sleeps, slept, r_error>>

\* ai.py:125-133: the warning and the sleep, then the next iteration
RetrySleep ==
    /\ r_pc = "sleep"
    /\ sleeps' = sleeps + 1
    /\ slept' = slept + Delay(attempt)
    /\ attempt' = attempt + 1
    /\ r_pc' = LoopPc(attempt + 1, max_retries)
    /\ UNCHANGED <<plan, retries, calls, last_exc, r_result, r_error>>

\* ai.py:134: raise last_exc (raising None is a TypeError)
RetryRaise ==
    /\ r_pc = "raise"
    /\ r_pc' = "raised"
    /\ r_error' = IF last_exc = None THEN "TypeError" ELSE last_exc
    /\ UNCHANGED <<plan, retries, attempt, calls, sleeps, slept, last_exc, r_result>>

\* The state of _retry when the specification at hand does not run it.
RetryIdle ==
    /\ plan = <<>>
    /\ retries = NoInt
    /\ r_pc = "idle"
    /\ attempt = 0
    /\ calls = 0
    /\ sleeps = 0
    /\ slept = 0
    /\ last_exc = None
    /\ r_result = None
    /\ r_error = None

RetryPlanned == r_pc = "call" /\ RetryCall(plan[calls + 1])

(***************************************************************************)
(* The chunk partition helpers                                             *)
(***************************************************************************)
\* Python's items[a:b] for 0 <= a, with b clamped to the length.
Slice(items, a, b) == SubSeq(items, a + 1, Min(b, Len(items)))

\* The values of Python's range(start, stop, step) for step > 0, in order.
RECURSIVE PyRange(_, _, _)
PyRange(start, stop, step) ==
    IF start >= stop THEN <<>> ELSE <<start>> \o PyRange(start + step, stop, step)

\* What a generator does when run to its end: the chunks it yields, in order,
\* and the exception that ends it (None: it is exhausted normally).
Yields(chunks) == [chunks |-> chunks, err |-> None]

\* ai.py:97 with the slice one too long
SliceOverlapping(items, i, size) == Slice(items, i, i + size + 1)

\* ai.py:97: items[i : i + size]
ChunkSlice(items, i, size) == Slice(items, i, i + size)

\* ai.py:93-97: AIBackendBase._iter_chunks.  range() with step 0 (an empty
\* list and size <= 0) raises ValueError.
IterChunks(items, size) ==
    LET sz == IF size <= 0 THEN Len(items) ELSE size
        starts == PyRange(0, Len(items), sz)
    IN  IF sz = 0
        THEN [chunks |-> <<>>, err |-> "ValueError"]
        ELSE Yields([k \in 1 .. Len(starts) |-> ChunkSlice(items, starts[k], sz)])

\* transcribers/base.py:197-201: AIAPITranscriber._iter_chunks
TranscriberIterChunks(items, size) ==
    LET sz == IF size <= 0 THEN Len(items) ELSE size
        starts == PyRange(0, Len(items), sz)
    IN  IF sz = 0
        THEN [chunks |-> <<>>, err |-> "ValueError"]
        ELSE Yields([k \in 1 .. Len(starts) |-> Slice(items, starts[k], starts[k] + sz)])

\* aligners/base.py:126 with a stride one too long
AlignStartsSkipping(n, chunk_size) == PyRange(0, n, chunk_size + 1)

\* aligners/base.py:126: range(0, len(segments), chunk_size)
AlignStarts(n, chunk_size) == PyRange(0, n, chunk_size)

\* aligners/base.py:124,128 sending only as many reference items as segments
ReferenceSliced(reference, i, chunk_size) == Slice(reference, i, i + chunk_size)

\* aligners/base.py:124,128: the second component of every yielded pair
ReferenceFor(reference, i, chunk_size) == reference

\* aligners/base.py:116-128: AIAligner._iter_alignment_chunks; yields pairs
\* (seg_batch, reference).
IterAlignmentChunks(segments, reference, chunk_size) ==
    IF chunk_size <= 0 \/ chunk_size >= Len(segments)
    THEN Yields(<<[batch |-> segments, ref |-> ReferenceFor(reference, 0, Len(segments))]>>)
    ELSE LET starts == AlignStarts(Len(segments), chunk_size) IN
         Yields([k \in 1 .. Len(starts) |->
                    [batch |-> Slice(segments, starts[k], starts[k] + chunk_size),
                     ref |-> ReferenceFor(reference, starts[k], chunk_size)]])

\* Items the generators are run on: lists of at most MaxLen items, repeated
\* items included.
ItemIds == {"a", "b"}

RECURSIVE SeqsUpTo(_, _)
SeqsUpTo(S, n) ==
    IF n = 0 THEN {<<>>}
    ELSE LET shorter == SeqsUpTo(S, n - 1) IN
         shorter \cup {Append(q, x) : q \in {r \in shorter : Len(r) = n - 1}, x \in S}

ChunkKinds == {"_iter_chunks", "transcriber._iter_chunks", "_iter_alignment_chunks"}

\* The whole run of the generator being iterated.
ChunkRun ==
    CASE c_kind = "_iter_chunks" -> IterChunks(c_items, c_size)
      [] c_kind = "transcriber._iter_chunks" ->
            LET r == TranscriberIterChunks(c_items, c_size) IN r
      [] c_kind = "_iter_alignment_chunks" ->
            LET r == IterAlignmentChunks(c_items, c_reference, c_size) IN
            [chunks |-> [k \in 1 .. Len(r.chunks) |-> r.chunks[k].batch], err |-> r.err]

ChunkRefs ==
    IF c_kind = "_iter_alignment_chunks"
    THEN LET r == IterAlignmentChunks(c_items, c_reference, c_size) IN
         [k \in 1 .. Len(r.chunks) |-> r.chunks[k].ref]
    ELSE <<>>

ChunkInit ==
    /\ c_kind \in ChunkKinds
    /\ c_items \in SeqsUpTo(ItemIds, MaxLen)
    /\ c_reference \in IF c_kind = "_iter_alignment_chunks"
                       THEN {<<>>, <<"r1", "r2">>} ELSE {<<>>}
    /\ c_size \in (-1) .. (MaxLen + 1)
    /\ c_yielded = <<>>
    /\ c_pc = "iter"

ChunkIdle ==
    /\ c_kind = "idle"
    /\ c_items = <<>>
    /\ c_reference = <<>>
    /\ c_size = 0
    /\ c_yielded = <<>>
    /\ c_pc = "idle"

\* The consumer takes the next chunk.
ChunkYield ==
    /\ c_pc = "iter"
    /\ Len(c_yielded) < Len(ChunkRun.chunks)
    /\ c_yielded' = Append(c_yielded, ChunkRun.chunks[Len(c_yielded) + 1])
    /\ UNCHANGED <<c_kind, c_items, c_reference, c_size, c_pc>>

\* The generator is exhausted.
ChunkStop ==
    /\ c_pc = "iter"
    /\ Len(c_yielded) = Len(ChunkRun.chunks)
    /\ ChunkRun.err = None
    /\ c_pc' = "done"
    /\ UNCHANGED <<c_kind, c_items, c_reference, c_size, c_yielded>>

\* The generator raises.
ChunkRaise ==
    /\ c_pc = "iter"
    /\ Len(c_yielded) = Len(ChunkRun.chunks)
    /\ ChunkRun.err # None
    /\ c_pc' = "error"
    /\ UNCHANGED <<c_kind, c_items, c_reference, c_size, c_yielded>>

(***************************************************************************)
(* Data model: text, JSON values, Segment                                  *)
(***************************************************************************)
\* A Python str is a sequence of characters; SP is a whitespace character.
SP == " "

\* str.strip(): leading and trailing whitespace removed.
RECURSIVE LStrip(_)
LStrip(s) == IF s # <<>> /\ Head(s) = SP THEN LStrip(Tail(s)) ELSE s

RECURSIVE RStrip(_)
RStrip(s) ==
    IF s # <<>> /\ s[Len(s)] = SP THEN RStrip(SubSeq(s, 1, Len(s) - 1)) ELSE s

Strip(s) == RStrip(LStrip(s))

\* A JSON value as Python holds it after json.loads (and the value of a
\* Segment field): a str, a number, None, a list, or "absent" for a key a
\* dict does not have.
JStr(s) == [t |-> "str", s |-> s, n |-> 0]

JNum(n) == [t |-> "num", s |-> <<>>, n |-> n]

JNull == [t |-> "null", s |-> <<>>, n |-> 0]

JList == [t |-> "list", s |-> <<>>, n |-> 0]

Absent == [t |-> "absent", s |-> <<>>, n |-> 0]

\* A Segment's audio: no path (None), or the path of a file of the scratch
\* directory.
NoAudio == <<>>

\* transcribe.py:39, 54: the files of the scratch directory
WavPath == <<"audio.wav">>

SegPath(idx) == <<"segment.wav", idx>>

\* common.py:10-16: Segment.  Times are whole seconds.
Segment(index, start, end, text, audio) ==
    [index |-> index, start |-> start, end |-> end, text |-> text, audio |-> audio]

\* One element of a parsed JSON array: a dict with some of the keys index,
\* text, start, end, or something that is not a dict.
Entry(index, text, start, end) ==
    [dict |-> TRUE, index |-> index, text |-> text, start |-> start, end |-> end]

NotADict == [dict |-> FALSE, index |-> Absent, text |-> Absent, start |-> Absent, end |-> Absent]

\* The document json.loads finds in raw_text: none (invalid JSON), an array,
\* or some other JSON value.
Invalid == [t |-> "invalid", items |-> <<>>]

JArray(items) == [t |-> "array", items |-> items]

JOther(t) == [t |-> t, items |-> <<>>]

(***************************************************************************)
(* _parse_response_text (translator, transcriber, aligner)                 *)
(***************************************************************************)
\* The outcome of a parser: the batch as it leaves it and the exception
\* raised (None: it returned).
Parsed(batch, err) == [batch |-> batch, err |-> err]

\* translators/base.py:118: json.loads, then line 122: iterating the value.
\* Iterating a JSON object yields its keys and iterating a string its
\* characters, none of them a dict; a number, a boolean or null is not iterable.
LoadError(raw) ==
    CASE raw.t = "invalid" -> "JSONDecodeError"
      [] raw.t \in {"number", "null"} -> "TypeError"
      [] OTHER -> None

\* translators/base.py:120-124: the entries by_index is built from; a list
\* as a key is unhashable.
Indexed(items) == SelectSeq(items, LAMBDA e : e.dict /\ e.index.t # "absent")

ByIndexError(items) ==
    IF \E k \in 1 .. Len(Indexed(items)) : Indexed(items)[k].index.t = "list"
    THEN "TypeError" ELSE None

\* Whether dict key k (an entry's index) equals the integer idx.
KeyIs(k, idx) == k.t = "num" /\ k.n = idx

\* translators/base.py:127: by_index.get(seg.index): the place in items of the
\* last entry whose index equals idx (a later entry replaces an earlier one in
\* the dict), or 0 if there is none.
Lookup(items, idx) ==
    LET hits == {k \in 1 .. Len(items) :
                    items[k].dict /\ KeyIs(items[k].index, idx)}
    IN  IF hits = {} THEN 0 ELSE CHOOSE k \in hits : \A j \in hits : j <= k

\* The no-match branch writing the default text
ClearUnmatched(seg) == [seg EXCEPT !.text = JStr(<<>>)]

\* translators/base.py:128: `if entry:` is false, the segment is not touched
LeaveUnmatched(seg) == seg

\* translators/base.py:129: seg.text = entry.get("text", "").strip()
\* (the result: the segment and the exception raised, if any)
TranslatorWrite(seg, entry) ==
    CASE entry.text.t = "absent" -> Parsed([seg EXCEPT !.text = JStr(<<>>)], None)
      [] entry.text.t = "str" -> Parsed([seg EXCEPT !.text = JStr(Strip(entry.text.s))], None)
      [] OTHER -> Parsed(seg, "AttributeError")

\* transcribers/base.py:254 adding the entry's text to the segment's
TranscriberWriteAppend(seg, entry) ==
    CASE entry.text.t = "absent" -> Parsed(seg, None)
      [] entry.text.t = "str" ->
           Parsed([seg EXCEPT !.text = JStr(seg.text.s \o Strip(entry.text.s))], None)
      [] OTHER -> Parsed(seg, "AttributeError")

\* transcribers/base.py:254: seg.text = entry.get("text", "").strip()
TranscriberWrite(seg, entry) ==
    CASE entry.text.t = "absent" -> Parsed([seg EXCEPT !.text = JStr(<<>>)], None)
      [] entry.text.t = "str" -> Parsed([seg EXCEPT !.text = JStr(Strip(entry.text.s))], None)
      [] OTHER -> Parsed(seg, "AttributeError")

\* The digits float() reads in this model's strings.
DigitValue(c) == CASE c = "1" -> 1 [] c = "2" -> 2 [] OTHER -> -1

\* float(x): a number is kept, a numeric string (whitespace around it
\* allowed) is parsed, any other string is a ValueError, None or a list a
\* TypeError.  The result: [val, err].
Float(x) ==
    CASE x.t = "num" -> [val |-> x.n, err |-> None]
      [] x.t = "str" ->
           LET d == Strip(x.s) IN
           IF Len(d) = 1 /\ DigitValue(d[1]) >= 0
           THEN [val |-> DigitValue(d[1]), err |-> None]
           ELSE [val |-> 0, err |-> "ValueError"]
      [] OTHER -> [val |-> 0, err |-> "TypeError"]

\* dict.get(key, default)
GetOr(v, default) == IF v.t = "absent" THEN default ELSE v

\* aligners/base.py:171-172 without the assignment
AlignerKeepText(seg, entry) == seg

\* aligners/base.py:171-172: if "text" in entry: seg.text = entry["text"]
AlignerText(seg, entry) ==
    IF entry.text.t # "absent" THEN [seg EXCEPT !.text = entry.text] ELSE seg

\* aligners/base.py:169-172: start, then end, then text; an exception leaves
\* what was assigned before it.
AlignerWrite(seg, entry) ==
    LET st == Float(GetOr(entry.start, JNum(seg.start)))
        en == Float(GetOr(entry.end, JNum(seg.end)))
        s1 == [seg EXCEPT !.start = st.val]
        s2 == [s1 EXCEPT !.end = en.val]
    IN  CASE st.err # None -> Parsed(seg, st.err)
          [] en.err # None -> Parsed(s1, en.err)
          [] OTHER -> Parsed(AlignerText(s2, entry), None)

Write(kind, seg, entry) ==
    CASE kind = "translator" -> TranslatorWrite(seg, entry)
      [] kind = "transcriber" -> TranscriberWrite(seg, entry)
      [] kind = "aligner" -> AlignerWrite(seg, entry)

\* translators/base.py:127-129 (and the same body in the other two parsers):
\* one turn of the loop, for the segment at place i.
ApplyAt(kind, items, batch, i) ==
    LET k == Lookup(items, batch[i].index) IN
    IF k = 0
    THEN Parsed([batch EXCEPT ![i] = LeaveUnmatched(batch[i])], None)
    ELSE LET w == Write(kind, batch[i], items[k]) IN
         Parsed([batch EXCEPT ![i] = w.batch], w.err)

\* The turns of the loop for places lo..hi, in order, until one raises (the
\* turns for the first half of the places, then those for the second).
RECURSIVE ApplyRange(_, _, _, _, _)
ApplyRange(kind, items, batch, lo, hi) ==
    IF lo > hi THEN Parsed(batch, None)
    ELSE IF lo = hi THEN ApplyAt(kind, items, batch, lo)
    ELSE LET mid == (lo + hi) \div 2
             first == ApplyRange(kind, items, batch, lo, mid)
         IN  IF first.err # None THEN first
             ELSE ApplyRange(kind, items, first.batch, mid + 1, hi)

\* translators/base.py:126-129 (and the same loop of the other two parsers):
\* the segments of the batch from place i on, in order, until one raises.
ApplyFrom(kind, items, batch, i) == ApplyRange(kind, items, batch, i, Len(batch))

\* translators/base.py:116-129, transcribers/base.py:241-254,
\* aligners/base.py:156-172: _parse_response_text
ParseResponseText(kind, raw, batch) ==
    CASE LoadError(raw) # None -> Parsed(batch, LoadError(raw))
      [] ByIndexError(raw.items) # None -> Parsed(batch, ByIndexError(raw.items))
      [] OTHER -> ApplyFrom(kind, raw.items, batch, 1)

TranslatorParse(raw, batch) == ParseResponseText("translator", raw, batch)

TranscriberParse(raw, batch) == ParseResponseText("transcriber", raw, batch)

AlignerParse(raw, batch) == ParseResponseText("aligner", raw, batch)

\* The batches the parsers are run on: L segments, L <= MaxLen, whose index
\* values are 1..L, or all 1 (duplicates), or 2..L+1 (not starting at 1).
IndexPatterns ==
    UNION {{[k \in 1 .. L |-> k], [k \in 1 .. L |-> 1], [k \in 1 .. L |-> k + 1]} :
              L \in 0 .. MaxLen}

\* The text the segment at place k holds before the call.
TextAt(k) == CASE k = 1 -> <<"a">> [] k = 2 -> <<SP, "b">> [] OTHER -> <<>>

SegmentsOf(pattern) ==
    [k \in 1 .. Len(pattern) |->
        Segment(pattern[k], 2 * k, 2 * k + 1, JStr(TextAt(k)), NoAudio)]

Batches == {SegmentsOf(pt) : pt \in IndexPatterns}

\* What a provider may answer: entries with and without each key, with values
\* of the expected type and of others.
Entries ==
    { Entry(JNum(2), JStr(<<"X">>), Absent, Absent),
      Entry(JNum(1), JStr(<<SP, "Y", SP>>), JNum(7), JNum(9)),
      Entry(JNum(1), Absent, JStr(<<"1">>), Absent),
      Entry(JNum(2), JNull, JNum(1), JNum(1)),
      Entry(JNum(3), JStr(<<>>), JNull, JNum(5)),
      Entry(JNum(1), JStr(<<"Z">>), JNum(4), JStr(<<"x">>)),
      Entry(Absent, JStr(<<"X">>), JNum(0), JNum(1)),
      Entry(JStr(<<"1">>), JStr(<<"X">>), JNum(0), JNum(1)),
      Entry(JList, JStr(<<"X">>), Absent, Absent),
      NotADict }

Responses ==
    {JArray(items) : items \in SeqsUpTo(Entries, MaxEntries)}
        \cup {Invalid, JOther("object"), JOther("string"), JOther("number"), JOther("null")}

ParserKinds == {"translator", "transcriber", "aligner"}

ParseInit ==
    /\ p_kind \in ParserKinds
    /\ p_raw \in Responses
    /\ p_before \in Batches
    /\ p_batch = p_before
    /\ p_pc = "ready"
    /\ p_error = None

ParseIdle ==
    /\ p_kind = "idle"
    /\ p_raw = Invalid
    /\ p_before = <<>>
    /\ p_batch = <<>>
    /\ p_pc = "idle"
    /\ p_error = None

ParseResult ==
    CASE p_kind = "translator" -> TranslatorParse(p_raw, p_batch)
      [] p_kind = "transcriber" -> TranscriberParse(p_raw, p_batch)
      [] p_kind = "aligner" -> AlignerParse(p_raw, p_batch)

\* One call of _parse_response_text that returns.
ParseReturn ==
    /\ p_pc = "ready"
    /\ ParseResult.err = None
    /\ p_batch' = ParseResult.batch
    /\ p_pc' = "done"
    /\ UNCHANGED <<p_kind, p_raw, p_before, p_error>>

\* One call of _parse_response_text that raises.
ParseRaise ==
    /\ p_pc = "ready"
    /\ ParseResult.err # None
    /\ p_batch' = ParseResult.batch
    /\ p_pc' = "error"
    /\ p_error' = ParseResult.err
    /\ UNCHANGED <<p_kind, p_raw, p_before>>

(***************************************************************************)
(* AITranslator.translate and AIAligner.align                              *)
(***************************************************************************)
\* ai.py:25
default_chunk == 2000

\* common.py:19-22: Usage
Usage(tokens_in, tokens_out) == [tokens_in |-> tokens_in, tokens_out |-> tokens_out]

\* The caller's stats: None, or a dict that may hold tokens_in and tokens_out.
NoStats == [given |-> FALSE, has |-> FALSE, tokens_in |-> 0, tokens_out |-> 0]

EmptyStats == [given |-> TRUE, has |-> FALSE, tokens_in |-> 0, tokens_out |-> 0]

StatsOf(u) == [given |-> TRUE, has |-> TRUE, tokens_in |-> u.tokens_in, tokens_out |-> u.tokens_out]

\* common.py:24-28 leaving the mapping alone
ExportSkipped(u, stats) == stats

\* common.py:24-28: Usage.export
Export(u, stats) == IF ~stats.given THEN stats ELSE StatsOf(u)

\* ai.py:99-106 looking at the environment first
ResolveEnvFirst(api_key, env_key) == IF env_key # "" THEN env_key ELSE api_key

\* ai.py:99-106: _resolve_api_key: the key, or "" where it raises RuntimeError
ResolveApiKey(api_key, env_key) == IF api_key # "" THEN api_key ELSE env_key

\* translators/base.py:65 handing no chunk argument on as size 0
ChunkSizeNoneWhole(chunk) ==
    IF chunk = NoInt THEN 0
    ELSE IF IntOf(chunk) > 0 THEN IntOf(chunk) ELSE default_chunk

\* translators/base.py:65, aligners/base.py:78:
\* chunk if chunk and chunk > 0 else self.default_chunk
ChunkSize(chunk) ==
    IF chunk # NoInt /\ IntOf(chunk) # 0 /\ IntOf(chunk) > 0 THEN IntOf(chunk) ELSE default_chunk

\* transcribers/base.py:81
transcriber_default_chunk == 20

\* transcribers/base.py:163 handing a non-positive chunk argument on as it is
TranscriberChunkAsGiven(chunk) ==
    IF chunk = NoInt THEN transcriber_default_chunk ELSE IntOf(chunk)

\* transcribers/base.py:163: chunk if chunk and chunk > 0 else self.default_chunk
TranscriberChunkSize(chunk) ==
    IF chunk # NoInt /\ IntOf(chunk) # 0 /\ IntOf(chunk) > 0
    THEN IntOf(chunk) ELSE transcriber_default_chunk

\* The places 1..n of a list, as a list.
Places(n) == [i \in 1 .. n |-> i]

\* translators/base.py:73, aligners/base.py:81-83, transcribers/base.py:168:
\* the chunks the loop runs through, each the places of its segments in the
\* segments argument.
BatchChunks(op, n, chunk_size) ==
    CASE op = "align" ->
           LET r == IterAlignmentChunks(Places(n), <<>>, chunk_size) IN
           [k \in 1 .. Len(r.chunks) |-> r.chunks[k].batch]
      [] op = "batch_transcribe" -> TranscriberIterChunks(Places(n), chunk_size).chunks
      [] OTHER -> IterChunks(Places(n), chunk_size).chunks

\* aligners/base.py:81-83: the reference batch that comes with chunk k
BatchReference(reference, n, chunk_size, k) ==
    IterAlignmentChunks(Places(n), reference, chunk_size).chunks[k].ref

\* translators/base.py:74, aligners/base.py:84
SegData(segs) == [i \in 1 .. Len(segs) |-> [index |-> segs[i].index, text |-> segs[i].text]]

\* aligners/base.py:85-93
RefData(refs) ==
    [i \in 1 .. Len(refs) |->
        [index |-> refs[i].index, start |-> refs[i].start,
         end |-> refs[i].end, text |-> refs[i].text]]

NoRequest == [segments |-> <<>>, reference |-> <<>>]

\* translators/base.py:74: input_data; aligners/base.py:94-97: input_data
InputData(op, segs, refs) ==
    IF op = "align"
    THEN [segments |-> SegData(segs), reference |-> RefData(refs)]
    ELSE [segments |-> SegData(segs), reference |-> <<>>]

\* translators/base.py:81 keeping only the last batch
ReplaceResult(result, batch) == batch

\* translators/base.py:81, aligners/base.py:104: result.extend(batch)
ExtendResult(result, batch) == result \o batch

\* What _do_call (ai.py:153-165, 201-211) returns when the provider answers:
\* the response text and the Usage of the call.
Reply(raw, usage) == [raw |-> raw, usage |-> usage]

Replies ==
    { Reply(JArray(<<Entry(JNum(1), JStr(<<SP, "Y", SP>>), JNum(7), JNum(9)),
                     Entry(JNum(2), JStr(<<"X">>), JNum(9), JNum(11))>>), Usage(1, 2)),
      Reply(JArray(<<Entry(JNum(2), JStr(<<"X">>), Absent, Absent)>>), Usage(2, 1)),
      Reply(JArray(<<Entry(JNum(1), Absent, JNum(4), JNum(5))>>), Usage(0, 1)),
      Reply(JArray(<<Entry(JNum(2), JNull, JNum(1), JStr(<<"x">>))>>), Usage(1, 0)),
      Reply(Invalid, Usage(1, 1)) }

ProviderOutcomes == {Ok(r) : r \in Replies} \cup {Raise(e) : e \in Excs}

References ==
    { <<>>,
      <<Segment(1, 0, 3, JStr(<<"r">>), NoAudio), Segment(2, 3, 5, JStr(<<"s">>), NoAudio)>> }

ChunkArgs == {NoInt} \cup {SomeInt(n) : n \in (-1) .. MaxLen}

\* The segments as the pipeline hands them to a transcriber: each with the
\* path of its own clip.
WithAudio(batch) == [k \in 1 .. Len(batch) |-> [batch[k] EXCEPT !.audio = SegPath(k)]]

\* The default chunk size of an operation.
DefaultChunk(op) == IF op = "batch_transcribe" THEN transcriber_default_chunk ELSE default_chunk

\* A segments argument one segment longer than the default chunk size.
LongInput(op) ==
    [k \in 1 .. DefaultChunk(op) + 1 |-> Segment(k, 2 * k, 2 * k + 1, JStr(<<"a">>), NoAudio)]

\* The segments arguments explored: the batches of at most MaxLen segments
\* and the long one; for batch_transcribe with their clips, and one segment
\* without a clip.
BatchInputs(op) ==
    IF op = "batch_transcribe"
    THEN {WithAudio(b) : b \in Batches \cup {LongInput(op)}} \cup {SegmentsOf(<<1>>)}
    ELSE Batches \cup {LongInput(op)}

\* The chunk arguments explored with a segments argument: for the long one,
\* none, the non-positive ones and its length.
ChunkArgsFor(input) ==
    IF Len(input) > MaxLen
    THEN {NoInt, SomeInt(-1), SomeInt(0), SomeInt(Len(input))}
    ELSE ChunkArgs

BatchInit(op) ==
    /\ b_op = op
    /\ b_api_key \in {"", "key"}
    /\ b_env_key = ""
    /\ b_client = None
    /\ b_input \in BatchInputs(op)
    /\ b_segments = b_input
    /\ b_reference \in IF op = "align" THEN References ELSE {<<>>}
    /\ b_chunk \in ChunkArgsFor(b_input)
    /\ b_pc = "start"
    /\ b_k = 0
    /\ b_request = NoRequest
    /\ b_sent = 0
    /\ b_usage = Usage(0, 0)
    /\ b_stats \in {NoStats, EmptyStats, StatsOf(Usage(5, 5))}
    /\ b_result = <<>>
    /\ b_error = None
    /\ Len(b_input) > MaxLen => (b_api_key = "key" /\ b_reference = <<>> /\ b_stats = EmptyStats)

BatchIdle ==
    /\ b_op = "idle"
    /\ b_api_key = ""
    /\ b_env_key = ""
    /\ b_client = None
    /\ b_input = <<>>
    /\ b_segments = <<>>
    /\ b_reference = <<>>
    /\ b_chunk = NoInt
    /\ b_pc = "idle"
    /\ b_k = 0
    /\ b_request = NoRequest
    /\ b_sent = 0
    /\ b_usage = Usage(0, 0)
    /\ b_stats = NoStats
    /\ b_result = <<>>
    /\ b_error = None

chunk_size ==
    IF b_op = "batch_transcribe" THEN TranscriberChunkSize(b_chunk) ELSE ChunkSize(b_chunk)

TheChunks == BatchChunks(b_op, Len(b_segments), chunk_size)

\* The Segment objects at the given places.
At(segs, places) == [i \in 1 .. Len(places) |-> segs[places[i]]]

\* The segments list with the objects at the given places (a run of
\* consecutive places, as every chunk is) replaced.
PutAt(segs, places, batch) ==
    IF places = <<>> THEN segs
    ELSE [i \in 1 .. Len(segs) |->
             IF i \in places[1] .. places[Len(places)]
             THEN batch[i - places[1] + 1] ELSE segs[i]]

\* The parser called inside the retried call: an error asks for the chunk
\* again
RetryAfterParseError == "loop"

\* translators/base.py:76, aligners/base.py:99, transcribers/base.py:170:
\* _parse_response_text is called in the loop body, outside _retry: what it
\* raises leaves the operation.
AfterParseError == "raised"

\* translators/base.py:65-72, aligners/base.py:73-80: the chunk size, the
\* prompt, _ensure_client (ai.py:83-87), a fresh usage_tracker and result.
BatchStart ==
    /\ b_pc = "start"
    /\ IF b_client # None
       THEN /\ b_pc' = "loop"
            /\ UNCHANGED <<b_client, b_error>>
       ELSE IF ResolveApiKey(b_api_key, b_env_key) = ""
            THEN /\ b_pc' = "raised"
                 /\ b_error' = "RuntimeError"
                 /\ UNCHANGED b_client
            ELSE /\ b_pc' = "loop"
                 /\ b_client' = "client"
                 /\ UNCHANGED b_error
    /\ b_k' = 1
    /\ b_usage' = Usage(0, 0)
    /\ b_result' = <<>>
    /\ UNCHANGED <<b_op, b_api_key, b_env_key, b_input, b_segments, b_reference, b_chunk,
                   b_request, b_sent, b_stats>>
    /\ UNCHANGED retryVars

\* translators/base.py:73-75, aligners/base.py:81-98: the next chunk, its
\* input_data, and _request entering _retry with retries=None.
BatchRequest ==
    /\ b_pc = "loop"
    /\ b_k <= Len(TheChunks)
    /\ b_request' = InputData(b_op, At(b_segments, TheChunks[b_k]),
                              IF b_op = "align"
                              THEN BatchReference(b_reference, Len(b_segments), chunk_size, b_k)
                              ELSE <<>>)
    /\ b_sent' = b_sent + 1
    /\ b_pc' = "request"
    /\ retries' = NoInt
    /\ r_pc' = LoopPc(0, max_retries_of(NoInt))
    /\ attempt' = 0
    /\ calls' = 0
    /\ sleeps' = 0
    /\ slept' = 0
    /\ last_exc' = None
    /\ UNCHANGED <<plan, r_result, r_error>>
    /\ UNCHANGED <<b_op, b_api_key, b_env_key, b_client, b_input, b_segments, b_reference,
                   b_chunk, b_k, b_usage, b_stats, b_result, b_error>>

\* ai.py:153-165: one provider call, answered or failed
BatchAttempt ==
    /\ b_pc = "request"
    /\ \E o \in ProviderOutcomes : RetryCall(o)
    /\ UNCHANGED batchVars

\* ai.py:125-133 within the request of a chunk
BatchSleep ==
    /\ b_pc = "request"
    /\ RetrySleep
    /\ UNCHANGED batchVars

\* ai.py:134: _retry raises, and the exception leaves _request and the
\* operation.
BatchRequestFailed ==
    /\ b_pc = "request"
    /\ RetryRaise
    /\ b_pc' = "raised"
    /\ b_error' = r_error'
    /\ UNCHANGED <<b_op, b_api_key, b_env_key, b_client, b_input, b_segments, b_reference,
                   b_chunk, b_k, b_request, b_sent, b_usage, b_stats, b_result>>

\* translators/base.py:76 handing the parser the whole segments list
ParserWholeList(places, n) == Places(n)

\* translators/base.py:76, aligners/base.py:99, transcribers/base.py:170:
\* the parser is handed the batch of the chunk at hand, nothing else
ParserBatch(places, n) == places

\* transcribers/base.py:175-176 going on to the next chunk after one yield
BatchYieldedAtFirst(place, places) == TRUE

\* transcribers/base.py:175-176: `for seg in batch: yield seg`: the loop over
\* the chunks goes on when the last segment of the batch has been yielded
BatchYielded(place, places) == place = places[Len(places)]

\* translators/base.py:76-81, aligners/base.py:99-104: the response is parsed
\* and applied, the usage added and exported, the batch appended to result.
BatchParse ==
    /\ b_pc = "request"
    /\ r_pc = "returned"
    /\ LET places == TheChunks[b_k]
           given == ParserBatch(places, Len(b_segments))
           parsed == IF b_op = "align"
                     THEN AlignerParse(r_result.raw, At(b_segments, given))
                     ELSE TranslatorParse(r_result.raw, At(b_segments, given))
           total == Usage(b_usage.tokens_in + r_result.usage.tokens_in,
                          b_usage.tokens_out + r_result.usage.tokens_out)
       IN  /\ b_segments' = PutAt(b_segments, given, parsed.batch)
           /\ IF parsed.err # None
              THEN /\ b_pc' = AfterParseError
                   /\ b_error' = parsed.err
                   /\ UNCHANGED <<b_k, b_usage, b_stats, b_result>>
              ELSE /\ b_pc' = "loop"
                   /\ b_k' = b_k + 1
                   /\ b_usage' = total
                   /\ b_stats' = Export(total, b_stats)
                   /\ b_result' = ExtendResult(b_result, places)
                   /\ UNCHANGED b_error
    /\ r_pc' = "idle"
    /\ r_result' = None
    /\ UNCHANGED <<plan, retries, attempt, calls, sleeps, slept, last_exc, r_error>>
    /\ UNCHANGED <<b_op, b_api_key, b_env_key, b_client, b_input, b_reference, b_chunk,
                   b_request, b_sent>>

\* translators/base.py:82, aligners/base.py:105: return result
BatchReturn ==
    /\ b_pc = "loop"
    /\ b_k > Len(TheChunks)
    /\ b_pc' = "returned"
    /\ UNCHANGED <<b_op, b_api_key, b_env_key, b_client, b_input, b_segments, b_reference,
                   b_chunk, b_k, b_request, b_sent, b_usage, b_stats, b_result, b_error>>
    /\ UNCHANGED retryVars

\* The list the operation returned: the objects result refers to.
Returned == At(b_segments, b_result)

(***************************************************************************)
(* AIAPITranscriber.batch_transcribe                                       *)
(***************************************************************************)
\* transcribers/gemini.py:47-55: _build_parts: a "Clip <index>" label and
\* the clip's audio for every segment of the batch
ClipData(segs) == [i \in 1 .. Len(segs) |-> [index |-> segs[i].index, audio |-> segs[i].audio]]

\* transcribers/base.py:259-260: a segment without an audio path
MissingAudio(segs) == \E i \in 1 .. Len(segs) : segs[i].audio = NoAudio

\* transcribers/base.py:168-169, transcribers/gemini.py:31-33: the next chunk
\* and the request built from it; _segments_to_audio_bytes raises for a
\* segment without audio.
TranscribeRequest ==
    /\ b_op = "batch_transcribe"
    /\ b_pc = "loop"
    /\ b_k <= Len(TheChunks)
    /\ IF MissingAudio(At(b_segments, TheChunks[b_k]))
       THEN /\ b_pc' = "raised"
            /\ b_error' = "FileNotFoundError"
            /\ UNCHANGED <<b_request, b_sent, r_pc, calls>>
       ELSE /\ b_request' = [segments |-> ClipData(At(b_segments, TheChunks[b_k])),
                             reference |-> <<>>]
            /\ b_sent' = b_sent + 1
            /\ b_pc' = "request"
            /\ r_pc' = "direct"
            /\ calls' = 0
            /\ UNCHANGED b_error
    /\ UNCHANGED <<plan, retries, attempt, sleeps, slept, last_exc, r_result, r_error>>
    /\ UNCHANGED <<b_op, b_api_key, b_env_key, b_client, b_input, b_segments, b_reference,
                   b_chunk, b_k, b_usage, b_stats, b_result>>

\* transcribers/gemini.py:35-45: the provider call, made directly: an answer
\* is returned to batch_transcribe, an exception leaves it at once.
TranscribeCall ==
    /\ b_op = "batch_transcribe"
    /\ b_pc = "request"
    /\ r_pc = "direct"
    /\ calls' = calls + 1
    /\ \E o \in ProviderOutcomes :
          IF o.kind = "ok"
          THEN /\ r_pc' = "returned"
               /\ r_result' = o.val
               /\ UNCHANGED <<b_pc, b_error>>
          ELSE /\ r_pc' = "idle"
               /\ b_pc' = "raised"
               /\ b_error' = o.val
               /\ UNCHANGED r_result
    /\ UNCHANGED <<plan, retries, attempt, sleeps, slept, last_exc, r_error>>
    /\ UNCHANGED <<b_op, b_api_key, b_env_key, b_client, b_input, b_segments, b_reference,
                   b_chunk, b_k, b_request, b_sent, b_usage, b_stats, b_result>>

\* transcribers/base.py:170-174: the response is parsed and applied, the usage
\* added and exported; the segments of the batch are yielded next.
TranscribeParse ==
    /\ b_op = "batch_transcribe"
    /\ b_pc = "request"
    /\ r_pc = "returned"
    /\ LET given == ParserBatch(TheChunks[b_k], Len(b_segments))
           parsed == TranscriberParse(r_result.raw, At(b_segments, given))
           total == Usage(b_usage.tokens_in + r_result.usage.tokens_in,
                          b_usage.tokens_out + r_result.usage.tokens_out)
       IN  /\ b_segments' = PutAt(b_segments, given, parsed.batch)
           /\ IF parsed.err # None
              THEN /\ b_pc' = AfterParseError
                   /\ b_error' = parsed.err
                   /\ UNCHANGED <<b_usage, b_stats>>
              ELSE /\ b_pc' = "yield"
                   /\ b_usage' = total
                   /\ b_stats' = Export(total, b_stats)
                   /\ UNCHANGED b_error
    /\ r_pc' = "idle"
    /\ r_result' = None
    /\ UNCHANGED <<plan, retries, attempt, calls, sleeps, slept, last_exc, r_error>>
    /\ UNCHANGED <<b_op, b_api_key, b_env_key, b_client, b_input, b_reference, b_chunk,
                   b_k, b_request, b_sent, b_result>>

\* transcribers/base.py:175-176: the next segment of the batch is yielded;
\* after the last one the loop goes on to the next chunk.
TranscribeYield ==
    /\ b_op = "batch_transcribe"
    /\ b_pc = "yield"
    /\ LET places == TheChunks[b_k]
           place == Len(b_result) + 1
       IN  /\ b_result' = Append(b_result, place)
           /\ IF BatchYielded(place, places)
              THEN b_pc' = "loop" /\ b_k' = b_k + 1
              ELSE UNCHANGED <<b_pc, b_k>>
    /\ UNCHANGED <<b_op, b_api_key, b_env_key, b_client, b_input, b_segments, b_reference,
                   b_chunk, b_request, b_sent, b_usage, b_stats, b_error>>
    /\ UNCHANGED retryVars

(***************************************************************************)
(* transcribe(): the pipeline                                              *)
(***************************************************************************)
\* transcribe.py:29-36: what the reporter is called with
Status(msg) == [kind |-> "status", msg |-> msg, current |-> 0, total |-> 0]

Detected(n) == [kind |-> "status", msg |-> "Detected", current |-> 0, total |-> n]

Progress(current, total) ==
    [kind |-> "progress", msg |-> "transcription", current |-> current, total |-> total]

\* transcribe.py:29-30: `reporter and reporter(...)`
Report(events, reporter, new) == IF reporter THEN events \o new ELSE events

\* transcribe.py:53 keeping the index the detector assigned
KeepDetectorIndex(seg, idx) == seg.index

\* transcribe.py:52-53: seg.index = idx, idx counting from 1
NewIndex(seg, idx) == idx

\* transcribe.py:45 testing for None only
NoSpeechIfNone(segments) == FALSE

\* transcribe.py:45: `if not segments`
NoSpeech(segments) == segments = <<>>

\* transcribe.py:67 without the strip
HasTextUnstripped(text) == text.s # <<>>

\* transcribe.py:67: `if seg.text.strip()`
HasText(text) == Strip(text.s) # <<>>

\* The scratch directory removed only when the block is left by return
TmpdirAfterReturnOnly(error) == IF error = None THEN "removed" ELSE "exists"

\* transcribe.py:38: leaving the `with tempfile.TemporaryDirectory()` block,
\* by return or by an exception, removes the directory and what it holds
TmpdirAfterExit(error) == "removed"

\* transcribe.py:26 with the test left out
InputAlwaysThere(exists) == FALSE

\* transcribe.py:26: `if not input_media.exists()`
InputMissing(exists) == ~exists

\* The text stored together with times counted from the start of the clip
TranscribedClipTimes(seg, text) ==
    [seg EXCEPT !.text = text, !.start = 0, !.end = seg.end - seg.start]

\* transcribers/base.py:66: `seg.text = self.transcribe(...)`; nothing else
\* of the segment is assigned
Transcribed(seg, text) == [seg EXCEPT !.text = text]

\* transcribe.py:69 counting only the segments that were kept
CompletedKept(completed, text) == IF HasText(text) THEN completed + 1 ELSE completed

\* transcribe.py:69: `completed += 1`, whatever the text was
Completed(completed, text) == completed + 1

\* transcribe.py:72 never raising
NeverNothing(result) == FALSE

\* transcribe.py:72: `if len(transcribed_segments) == 0`
NothingTranscribed(result) == Len(result) = 0

\* transcribe.py:52-58 starting transcription once one clip has been cut
CutLoopOverAfterFirst(next, n) == next > 1

\* transcribe.py:52-58: the cutting loop is over when every segment of the
\* detector's list has been through its body
CutLoopOver(next, n) == next > n

FilesAfterExit(files, error) == IF TmpdirAfterExit(error) = "removed" THEN {} ELSE files

\* tests/test_backends.py:12-17: the intervals of the sample clip
ExpectedIntervals == <<<<0, 3>>, <<3, 5>>, <<5, 8>>, <<8, 11>>>>

SampleDetection ==
    [k \in 1 .. Len(ExpectedIntervals) |->
        Segment(0, ExpectedIntervals[k][1], ExpectedIntervals[k][2], JStr(<<>>), NoAudio)]

\* What the detector may return: at most MaxLen segments, text empty, with
\* the index values 1..L, all 1, or 2..L+1; or the intervals of the sample.
Detections ==
    {[k \in 1 .. Len(pt) |-> Segment(pt[k], 2 * k, 2 * k + 1, JStr(<<>>), NoAudio)] :
        pt \in IndexPatterns} \cup {SampleDetection}

\* What a transcriber's transcribe() may return for a clip.
Transcripts == {<<>>, <<SP>>, <<"a">>, <<SP, "b", SP>>}

NoCalls == [convert |-> 0, detect |-> 0, cut |-> 0, batch_transcribe |-> 0, transcribe |-> 0]

PipeInit ==
    /\ t_exists \in BOOLEAN
    /\ t_reporter \in BOOLEAN
    /\ t_credential \in BOOLEAN
    /\ t_pc = "start"
    /\ t_tmpdir = "none"
    /\ t_files = {}
    /\ t_detected = <<>>
    /\ t_segments = <<>>
    /\ t_next = 1
    /\ t_calls = NoCalls
    /\ t_events = <<>>
    /\ t_completed = 0
    /\ t_result = <<>>
    /\ t_error = None

PipeIdle ==
    /\ t_exists = FALSE
    /\ t_reporter = FALSE
    /\ t_credential = FALSE
    /\ t_pc = "idle"
    /\ t_tmpdir = "none"
    /\ t_files = {}
    /\ t_detected = <<>>
    /\ t_segments = <<>>
    /\ t_next = 1
    /\ t_calls = NoCalls
    /\ t_events = <<>>
    /\ t_completed = 0
    /\ t_result = <<>>
    /\ t_error = None

\* An exception leaves the with block: the scratch directory is removed and
\* the exception reaches the caller.
PipeFail(error) ==
    /\ t_pc' = "raised"
    /\ t_error' = error
    /\ t_tmpdir' = TmpdirAfterExit(error)

\* transcribe.py:25-38: the input is checked, then the scratch directory made
PipeEnter ==
    /\ t_pc = "start"
    /\ IF InputMissing(t_exists)
       THEN /\ t_pc' = "raised"
            /\ t_error' = "FileNotFoundError"
            /\ UNCHANGED t_tmpdir
       ELSE /\ t_pc' = "convert"
            /\ t_tmpdir' = "exists"
            /\ UNCHANGED t_error
    /\ UNCHANGED <<t_exists, t_reporter, t_credential, t_files, t_detected, t_segments, t_next, t_calls,
                   t_events, t_completed, t_result>>

\* transcribe.py:39-41: convert_media_to_wav writes audio.wav or raises
PipeConvert ==
    /\ t_pc = "convert"
    /\ t_events' = Report(t_events, t_reporter, <<Status("Converting audio...")>>)
    /\ t_calls' = [t_calls EXCEPT !.convert = @ + 1]
    /\ \/ /\ t_pc' = "detect"
          /\ t_files' = t_files \cup {WavPath}
          /\ UNCHANGED <<t_tmpdir, t_error>>
       \/ /\ PipeFail("ConvertError")
          /\ t_files' = FilesAfterExit(t_files, "ConvertError")
    /\ UNCHANGED <<t_exists, t_reporter, t_credential, t_detected, t_segments, t_next, t_completed, t_result>>

\* transcribe.py:43-49: detector.detect returns a list or raises; an empty
\* list is the "No speech detected" error
PipeDetect ==
    /\ t_pc = "detect"
    /\ t_calls' = [t_calls EXCEPT !.detect = @ + 1]
    /\ \/ \E segments \in Detections :
             /\ t_detected' = segments
             /\ t_segments' = segments
             /\ IF NoSpeech(segments)
                THEN /\ PipeFail("NoSpeech")
                     /\ t_files' = FilesAfterExit(t_files, "NoSpeech")
                     /\ t_events' = Report(t_events, t_reporter,
                                           <<Status("Running voice activity detection (VAD)...")>>)
                ELSE /\ t_pc' = "cut"
                     /\ t_events' = Report(t_events, t_reporter,
                                           <<Status("Running voice activity detection (VAD)..."),
                                             Detected(Len(segments)),
                                             Status("Cutting audio into clips...")>>)
                     /\ UNCHANGED <<t_tmpdir, t_files, t_error>>
       \/ /\ PipeFail("DetectError")
          /\ t_files' = FilesAfterExit(t_files, "DetectError")
          /\ t_events' = Report(t_events, t_reporter,
                                <<Status("Running voice activity detection (VAD)...")>>)
          /\ UNCHANGED <<t_detected, t_segments>>
    /\ UNCHANGED <<t_exists, t_reporter, t_credential, t_next, t_completed, t_result>>

\* transcribe.py:52-56: one turn of the cutting loop; cut_wav_segment writes
\* the clip or raises
PipeCut ==
    /\ t_pc = "cut"
    /\ ~CutLoopOver(t_next, Len(t_segments))
    /\ t_calls' = [t_calls EXCEPT !.cut = @ + 1]
    /\ \/ /\ t_segments' = [t_segments EXCEPT
                                ![t_next].index = NewIndex(t_segments[t_next], t_next),
                                ![t_next].audio = SegPath(t_next)]
          /\ t_files' = t_files \cup {SegPath(t_next)}
          /\ t_next' = t_next + 1
          /\ UNCHANGED <<t_pc, t_tmpdir, t_error>>
       \/ /\ t_segments' = [t_segments EXCEPT
                                ![t_next].index = NewIndex(t_segments[t_next], t_next)]
          /\ PipeFail("CutError")
          /\ t_files' = FilesAfterExit(t_files, "CutError")
          /\ UNCHANGED t_next
    /\ UNCHANGED <<t_exists, t_reporter, t_credential, t_detected, t_events, t_completed, t_result>>

\* transcribe.py:58-66: the loop is over; batch_transcribe is called (a
\* generator: nothing of it has run yet)
PipeStartTranscription ==
    /\ t_pc = "cut"
    /\ CutLoopOver(t_next, Len(t_segments))
    /\ t_events' = Report(t_events, t_reporter,
                          <<Status("Starting transcription..."), Progress(0, Len(t_segments))>>)
    /\ t_calls' = [t_calls EXCEPT !.batch_transcribe = @ + 1]
    /\ t_pc' = "transcribe"
    /\ t_next' = 1
    /\ t_completed' = 0
    /\ t_result' = <<>>
    /\ UNCHANGED <<t_exists, t_reporter, t_credential, t_tmpdir, t_files, t_detected, t_segments, t_error>>

\* transcribers/base.py:62-67: the generator's next segment (its audio path
\* checked, transcribe() called, the text stored, the segment yielded), then
\* transcribe.py:67-70: the body of the consuming loop.  The generator of
\* an API transcriber first runs _ensure_client (transcribers/base.py:165,
\* 178-182, 269-276), which raises when no API key can be found.
PipeNextSegment ==
    /\ t_pc = "transcribe"
    /\ t_next <= Len(t_segments)
    /\ IF ~t_credential
       THEN /\ PipeFail("MissingCredential")
            /\ t_files' = FilesAfterExit(t_files, "MissingCredential")
            /\ UNCHANGED <<t_segments, t_next, t_calls, t_events, t_completed, t_result>>
       ELSE
       IF t_segments[t_next].audio = NoAudio
       THEN /\ PipeFail("FileNotFoundError")
            /\ t_files' = FilesAfterExit(t_files, "FileNotFoundError")
            /\ UNCHANGED <<t_segments, t_next, t_calls, t_events, t_completed, t_result>>
       ELSE /\ t_calls' = [t_calls EXCEPT !.transcribe = @ + 1]
            /\ \/ \E text \in Transcripts :
                     /\ t_segments' = [t_segments EXCEPT
                                         ![t_next] = Transcribed(@, JStr(text))]
                     /\ t_result' = IF HasText(JStr(text))
                                    THEN Append(t_result, t_next) ELSE t_result
                     /\ t_completed' = Completed(t_completed, JStr(text))
                     /\ t_events' = Report(t_events, t_reporter,
                                           <<Progress(Completed(t_completed, JStr(text)),
                                                      Len(t_segments))>>)
                     /\ t_next' = t_next + 1
                     /\ UNCHANGED <<t_pc, t_tmpdir, t_files, t_error>>
               \/ /\ PipeFail("TranscribeError")
                  /\ t_files' = FilesAfterExit(t_files, "TranscribeError")
                  /\ UNCHANGED <<t_segments, t_next, t_events, t_completed, t_result>>
    /\ UNCHANGED <<t_exists, t_reporter, t_credential, t_detected>>

\* transcribe.py:72-76: the generator is exhausted
PipeFinish ==
    /\ t_pc = "transcribe"
    /\ t_next > Len(t_segments)
    /\ IF NothingTranscribed(t_result)
       THEN /\ PipeFail("NoSubtitleLines")
            /\ t_files' = FilesAfterExit(t_files, "NoSubtitleLines")
            /\ UNCHANGED t_events
       ELSE /\ t_pc' = "returned"
            /\ t_events' = Report(t_events, t_reporter, <<Status("Transcription completed.")>>)
            /\ t_tmpdir' = TmpdirAfterExit(None)
            /\ t_files' = FilesAfterExit(t_files, None)
            /\ UNCHANGED t_error
    /\ UNCHANGED <<t_exists, t_reporter, t_credential, t_detected, t_segments, t_next, t_calls,
                   t_completed, t_result>>

\* The list transcribe() returned.
PipeReturned == At(t_segments, t_result)

(***************************************************************************)
(* A backend instance, its client, and the callers of its operations       *)
(***************************************************************************)
\* The three batch operations.
BatchOps == {"translate", "align", "batch_transcribe"}

Tools == {"subtranslator", "subaligner"}

Callers == Tools \cup {"library"}

\* cli/subtranslator.py:63, cli/subaligner.py:80: the operation a tool calls;
\* a library caller may call any of the three
OpsOf(caller) ==
    CASE caller = "subtranslator" -> {"translate"}
      [] caller = "subaligner" -> {"align"}
      [] OTHER -> BatchOps

\* cli/subtranslator.py:53, cli/subaligner.py:66-67: the files a tool reads
InputFiles(caller) == IF caller = "subaligner" THEN 2 ELSE 1

\* ai.py:69-73: --retries, an int, default_retries if not given
RetriesGiven == (0 .. MaxRetries) \cup {default_retries}

\* ai.py:80-81: the keys of the dict opts_from_cli returns
opts_from_cli == {"chunk", "prompt", "retries"}

\* tests/test_translators.py:72, tests/test_aligners.py:85: options a
\* library caller passes
LibraryOpts == {{}, {"chunk"}, {"chunk", "prompt"}}

\* translators/base.py:55-63, aligners/base.py:62-71,
\* transcribers/base.py:152-160: the keyword parameters of the operation
\* that the caller's explicit arguments leave free
Keywords(op) ==
    IF op = "batch_transcribe" THEN {"chunk", "outline", "prompt"} ELSE {"chunk", "prompt"}

\* ai.py:83-87 forgetting the client it created
CacheNothing(client) == None

\* ai.py:86: `self._client = self._create_client()`
Cache(client) == client

\* ai.py:142-148, 187-197: _create_client: the import, then the key, then
\* the client (here: the key it was created with)
CreateClient(sdk, api_key, env_key) ==
    IF ~sdk THEN [error |-> "MissingDependencyException", client |-> None]
    ELSE IF ResolveApiKey(api_key, env_key) = ""
         THEN [error |-> "MissingCredential", client |-> None]
         ELSE [error |-> None, client |-> ResolveApiKey(api_key, env_key)]

\* translators/base.py:75, aligners/base.py:98: _request is called without
\* retries, so _call_text and _retry get retries=None;
\* transcribers/gemini.py:25-45 calls the provider directly, without _retry
RequestMaxRetries(op, cli_retries) ==
    IF op = "batch_transcribe" THEN NoInt ELSE SomeInt(max_retries_of(NoInt))

ClientInit ==
    /\ k_caller \in Callers
    /\ k_op \in OpsOf(k_caller)
    /\ k_retries \in IF k_caller \in Tools THEN RetriesGiven ELSE {default_retries}
    /\ k_api_key \in {"", "arg-key"}
    /\ k_env_key \in {"", "env-key"}
    /\ k_sdk \in BOOLEAN
    /\ k_pc = "start"
    /\ k_read = 0
    /\ k_opts = {}
    /\ k_client = None
    /\ k_created = 0
    /\ k_ops = 0
    /\ k_requests = 0
    /\ k_max_retries = NoInt
    /\ k_attempts = 0
    /\ k_error = None

ClientIdle ==
    /\ k_caller = "library"
    /\ k_op = "translate"
    /\ k_retries = default_retries
    /\ k_api_key = ""
    /\ k_env_key = ""
    /\ k_sdk = FALSE
    /\ k_pc = "idle"
    /\ k_read = 0
    /\ k_opts = {}
    /\ k_client = None
    /\ k_created = 0
    /\ k_ops = 0
    /\ k_requests = 0
    /\ k_max_retries = NoInt
    /\ k_attempts = 0
    /\ k_error = None

\* cli/subtranslator.py:50-55, cli/subaligner.py:61-72: the input files are
\* checked and read
ToolRead ==
    /\ k_pc = "start"
    /\ k_caller \in Tools
    /\ \E exists \in BOOLEAN, nonempty \in BOOLEAN :
          IF ~exists
          THEN /\ k_pc' = "ended"
               /\ k_error' = "FileNotFoundError"
               /\ UNCHANGED k_read
          ELSE /\ k_read' = InputFiles(k_caller)
               /\ IF nonempty
                  THEN k_pc' = "build" /\ UNCHANGED k_error
                  ELSE k_pc' = "ended" /\ k_error' = "NoSegments"
    /\ UNCHANGED <<k_caller, k_op, k_retries, k_api_key, k_env_key, k_sdk, k_opts, k_client,
                   k_created, k_ops, k_requests, k_max_retries, k_attempts>>

\* cli/subtranslator.py:57-59, cli/subaligner.py:74-76: from_cli_args
\* (ai.py:29-31, 76-77: the key is stored, no client made), opts_from_cli
ToolBuild ==
    /\ k_pc = "build"
    /\ k_opts' = opts_from_cli
    /\ k_pc' = "call"
    /\ UNCHANGED <<k_caller, k_op, k_retries, k_api_key, k_env_key, k_sdk, k_read, k_client,
                   k_created, k_ops, k_requests, k_max_retries, k_attempts, k_error>>

\* ai.py:29-31: a library caller constructs the backend and chooses options
LibraryBuild ==
    /\ k_pc = "start"
    /\ k_caller = "library"
    /\ k_opts' \in LibraryOpts
    /\ k_pc' = "call"
    /\ UNCHANGED <<k_caller, k_op, k_retries, k_api_key, k_env_key, k_sdk, k_read, k_client,
                   k_created, k_ops, k_requests, k_max_retries, k_attempts, k_error>>

\* cli/subtranslator.py:63-69, cli/subaligner.py:80-87: the call with **opts;
\* a keyword the operation does not have is a TypeError raised by the call
\* itself, before the operation's body
OperationCall ==
    /\ k_pc = "call"
    /\ IF k_opts \subseteq Keywords(k_op)
       THEN /\ k_pc' = "ensure"
            /\ k_ops' = k_ops + 1
            /\ UNCHANGED k_error
       ELSE /\ k_pc' = "ended"
            /\ k_error' = "TypeError"
            /\ UNCHANGED k_ops
    /\ UNCHANGED <<k_caller, k_op, k_retries, k_api_key, k_env_key, k_sdk, k_read, k_opts,
                   k_client, k_created, k_requests, k_max_retries, k_attempts>>

\* ai.py:83-87, transcribers/base.py:178-182: _ensure_client
EnsureClient ==
    /\ k_pc = "ensure"
    /\ IF k_client # None
       THEN /\ k_pc' = "request"
            /\ UNCHANGED <<k_client, k_created, k_error>>
       ELSE LET made == CreateClient(k_sdk, k_api_key, k_env_key)
            IN  /\ k_created' = k_created + 1
                /\ IF made.error # None
                   THEN /\ k_pc' = "ended"
                        /\ k_error' = made.error
                        /\ UNCHANGED k_client
                   ELSE /\ k_pc' = "request"
                        /\ k_client' = Cache(made.client)
                        /\ UNCHANGED k_error
    /\ UNCHANGED <<k_caller, k_op, k_retries, k_api_key, k_env_key, k_sdk, k_read, k_opts,
                   k_ops, k_requests, k_max_retries, k_attempts>>

\* translators/base.py:75, aligners/base.py:98, transcribers/base.py:169: a
\* provider request: it succeeds at some attempt, or every attempt fails
Request ==
    /\ k_pc = "request"
    /\ k_requests' = k_requests + 1
    /\ k_max_retries' = RequestMaxRetries(k_op, k_retries)
    /\ LET last == IF RequestMaxRetries(k_op, k_retries) = NoInt THEN 1
                   ELSE IntOf(RequestMaxRetries(k_op, k_retries)) + 1
       IN  \/ /\ k_attempts' \in 1 .. last
              /\ UNCHANGED k_error
           \/ /\ k_attempts' = last
              /\ k_error' = "ProviderError"
    /\ k_pc' = "ended"
    /\ UNCHANGED <<k_caller, k_op, k_retries, k_api_key, k_env_key, k_sdk, k_read, k_opts,
                   k_client, k_created, k_ops>>

\* A library caller calls the operation again on the same instance; the
\* environment may have changed in between.
CallAgain ==
    /\ k_pc = "ended"
    /\ k_caller = "library"
    /\ k_ops < MaxOps
    /\ k_pc' = "call"
    /\ k_error' = None
    /\ k_env_key' \in {"", "env-key"}
    /\ UNCHANGED <<k_caller, k_op, k_retries, k_api_key, k_sdk, k_read, k_opts, k_client,
                   k_created, k_ops, k_requests, k_max_retries, k_attempts>>

(***************************************************************************)
(* The subtitle codec: segments_to_srt, save, open, srt_to_segments        *)
(* (common.py:44-69, cli/audio2sub.py:103).  A Segment's start and end are *)
(* in microseconds here, a file item's in milliseconds.                    *)
(***************************************************************************)
\* Index values a Segment may carry.
CodecIndices == 1 .. MaxLen

\* Start times, in microseconds: a whole and a half millisecond.
CodecStarts == {0, 1500}

CodecSegment(index, start) ==
    [index |-> index, start |-> start, end |-> start + 2000, text |-> "a"]

CodecInputs ==
    UNION {[1 .. n -> {CodecSegment(i, t) : i \in CodecIndices, t \in CodecStarts}]
           : n \in 0 .. MaxEntries}

\* common.py:47-52: the item takes the segment's index, times and text
SubRipItem(seg) ==
    [index |-> seg.index, start |-> seg.start, end |-> seg.end, text |-> seg.text]

\* A timestamp of the file has three digits of milliseconds; whether the
\* library cuts or rounds what is beyond them is its own matter.
Milliseconds(us, mode) ==
    IF mode = "cut" THEN us \div 1000 ELSE (us + 500) \div 1000

\* cli/audio2sub.py:103: the item as the saved file holds it
Saved(item, mode) ==
    [index |-> item.index, start |-> Milliseconds(item.start, mode),
     end |-> Milliseconds(item.end, mode), text |-> item.text]

\* common.py:62-67: ordinal is in milliseconds, ordinal / 1000.0 in seconds
SegmentOfItem(item) ==
    [index |-> item.index, start |-> item.start * 1000, end |-> item.end * 1000,
     text |-> item.text]

CodecInit ==
    /\ f_segments \in CodecInputs
    /\ f_srt = <<>>
    /\ f_file = <<>>
    /\ f_read = <<>>
    /\ f_next = 1
    /\ f_pc = "write"

CodecIdle ==
    /\ f_segments = <<>>
    /\ f_srt = <<>>
    /\ f_file = <<>>
    /\ f_read = <<>>
    /\ f_next = 1
    /\ f_pc = "idle"

\* common.py:46-53: one iteration of the loop of segments_to_srt
CodecAppend ==
    /\ f_pc = "write"
    /\ f_next <= Len(f_segments)
    /\ f_srt' = Append(f_srt, SubRipItem(f_segments[f_next]))
    /\ f_next' = f_next + 1
    /\ UNCHANGED <<f_segments, f_file, f_read, f_pc>>

\* common.py:54, cli/audio2sub.py:103: segments_to_srt returns and the
\* subtitle is saved
CodecSave ==
    /\ f_pc = "write"
    /\ f_next > Len(f_segments)
    /\ \E mode \in {"cut", "round"} :
          f_file' = [k \in 1 .. Len(f_srt) |-> Saved(f_srt[k], mode)]
    /\ f_pc' = "saved"
    /\ UNCHANGED <<f_segments, f_srt, f_read, f_next>>

\* common.py:59-60: srt_to_segments opens the file
CodecOpen ==
    /\ f_pc = "saved"
    /\ f_next' = 1
    /\ f_read' = <<>>
    /\ f_pc' = "read"
    /\ UNCHANGED <<f_segments, f_srt, f_file>>

\* common.py:61-68: one iteration of the loop of srt_to_segments
CodecRead ==
    /\ f_pc = "read"
    /\ f_next <= Len(f_file)
    /\ f_read' = Append(f_read, SegmentOfItem(f_file[f_next]))
    /\ f_next' = f_next + 1
    /\ UNCHANGED <<f_segments, f_srt, f_file, f_pc>>

\* common.py:69
CodecReturn ==
    /\ f_pc = "read"
    /\ f_next > Len(f_file)
    /\ f_pc' = "returned"
    /\ UNCHANGED <<f_segments, f_srt, f_file, f_read, f_next>>

(***************************************************************************)
(* Specifications                                                          *)
(***************************************************************************)
InitRetry == CodecIdle /\ ClientIdle /\ PipeIdle /\ ChunkIdle /\ ParseIdle /\ BatchIdle /\ RetryInit

RetryNext ==
    \/ RetryPlanned /\ UNCHANGED <<chunkVars, parseVars, batchVars, pipeVars, clientVars, codecVars>>
    \/ RetrySleep /\ UNCHANGED <<chunkVars, parseVars, batchVars, pipeVars, clientVars, codecVars>>
    \/ RetryRaise /\ UNCHANGED <<chunkVars, parseVars, batchVars, pipeVars, clientVars, codecVars>>

SpecRetry == InitRetry /\ [][RetryNext]_vars

InitChunks == CodecIdle /\ ClientIdle /\ PipeIdle /\ RetryIdle /\ ParseIdle /\ BatchIdle /\ ChunkInit

ChunkNext ==
    \/ ChunkYield /\ UNCHANGED <<retryVars, parseVars, batchVars, pipeVars, clientVars, codecVars>>
    \/ ChunkStop /\ UNCHANGED <<retryVars, parseVars, batchVars, pipeVars, clientVars, codecVars>>
    \/ ChunkRaise /\ UNCHANGED <<retryVars, parseVars, batchVars, pipeVars, clientVars, codecVars>>

SpecChunks == InitChunks /\ [][ChunkNext]_vars

InitParse == CodecIdle /\ ClientIdle /\ PipeIdle /\ RetryIdle /\ ChunkIdle /\ BatchIdle /\ ParseInit

ParseNext ==
    \/ ParseReturn /\ UNCHANGED <<retryVars, chunkVars, batchVars, pipeVars, clientVars, codecVars>>
    \/ ParseRaise /\ UNCHANGED <<retryVars, chunkVars, batchVars, pipeVars, clientVars, codecVars>>

SpecParse == InitParse /\ [][ParseNext]_vars

BatchNext ==
    \/ BatchStart /\ UNCHANGED <<chunkVars, parseVars, pipeVars, clientVars, codecVars>>
    \/ BatchRequest /\ UNCHANGED <<chunkVars, parseVars, pipeVars, clientVars, codecVars>>
    \/ BatchAttempt /\ UNCHANGED <<chunkVars, parseVars, pipeVars, clientVars, codecVars>>
    \/ BatchSleep /\ UNCHANGED <<chunkVars, parseVars, pipeVars, clientVars, codecVars>>
    \/ BatchRequestFailed /\ UNCHANGED <<chunkVars, parseVars, pipeVars, clientVars, codecVars>>
    \/ BatchParse /\ UNCHANGED <<chunkVars, parseVars, pipeVars, clientVars, codecVars>>
    \/ BatchReturn /\ UNCHANGED <<chunkVars, parseVars, pipeVars, clientVars, codecVars>>

InitTranslate == CodecIdle /\ ClientIdle /\ PipeIdle /\ RetryIdle /\ ChunkIdle /\ ParseIdle /\ BatchInit("translate")

SpecTranslate == InitTranslate /\ [][BatchNext]_vars

InitAlign == CodecIdle /\ ClientIdle /\ PipeIdle /\ RetryIdle /\ ChunkIdle /\ ParseIdle /\ BatchInit("align")

SpecAlign == InitAlign /\ [][BatchNext]_vars

InitBatchTranscribe ==
    CodecIdle /\ ClientIdle /\ PipeIdle /\ RetryIdle /\ ChunkIdle /\ ParseIdle /\ BatchInit("batch_transcribe")

BatchTranscribeNext ==
    \/ BatchStart /\ UNCHANGED <<chunkVars, parseVars, pipeVars, clientVars, codecVars>>
    \/ TranscribeRequest /\ UNCHANGED <<chunkVars, parseVars, pipeVars, clientVars, codecVars>>
    \/ TranscribeCall /\ UNCHANGED <<chunkVars, parseVars, pipeVars, clientVars, codecVars>>
    \/ TranscribeParse /\ UNCHANGED <<chunkVars, parseVars, pipeVars, clientVars, codecVars>>
    \/ TranscribeYield /\ UNCHANGED <<chunkVars, parseVars, pipeVars, clientVars, codecVars>>
    \/ BatchReturn /\ UNCHANGED <<chunkVars, parseVars, pipeVars, clientVars, codecVars>>

SpecBatchTranscribe == InitBatchTranscribe /\ [][BatchTranscribeNext]_vars

InitBatchOps ==
    CodecIdle /\ ClientIdle /\ PipeIdle /\ RetryIdle /\ ChunkIdle /\ ParseIdle /\ \E op \in BatchOps : BatchInit(op)

BatchOpsNext ==
    \/ BatchStart /\ UNCHANGED <<chunkVars, parseVars, pipeVars, clientVars, codecVars>>
    \/ b_op # "batch_transcribe" /\ BatchRequest /\ UNCHANGED <<chunkVars, parseVars, pipeVars, clientVars, codecVars>>
    \/ b_op # "batch_transcribe" /\ BatchAttempt /\ UNCHANGED <<chunkVars, parseVars, pipeVars, clientVars, codecVars>>
    \/ b_op # "batch_transcribe" /\ BatchSleep /\ UNCHANGED <<chunkVars, parseVars, pipeVars, clientVars, codecVars>>
    \/ b_op # "batch_transcribe" /\ BatchRequestFailed
          /\ UNCHANGED <<chunkVars, parseVars, pipeVars, clientVars, codecVars>>
    \/ b_op # "batch_transcribe" /\ BatchParse /\ UNCHANGED <<chunkVars, parseVars, pipeVars, clientVars, codecVars>>
    \/ TranscribeRequest /\ UNCHANGED <<chunkVars, parseVars, pipeVars, clientVars, codecVars>>
    \/ TranscribeCall /\ UNCHANGED <<chunkVars, parseVars, pipeVars, clientVars, codecVars>>
    \/ TranscribeParse /\ UNCHANGED <<chunkVars, parseVars, pipeVars, clientVars, codecVars>>
    \/ TranscribeYield /\ UNCHANGED <<chunkVars, parseVars, pipeVars, clientVars, codecVars>>
    \/ BatchReturn /\ UNCHANGED <<chunkVars, parseVars, pipeVars, clientVars, codecVars>>

SpecBatchOps == InitBatchOps /\ [][BatchOpsNext]_vars

InitPipeline == CodecIdle /\ ClientIdle /\ RetryIdle /\ ChunkIdle /\ ParseIdle /\ BatchIdle /\ PipeInit

PipeNext ==
    \/ PipeEnter /\ UNCHANGED <<retryVars, chunkVars, parseVars, batchVars, clientVars, codecVars>>
    \/ PipeConvert /\ UNCHANGED <<retryVars, chunkVars, parseVars, batchVars, clientVars, codecVars>>
    \/ PipeDetect /\ UNCHANGED <<retryVars, chunkVars, parseVars, batchVars, clientVars, codecVars>>
    \/ PipeCut /\ UNCHANGED <<retryVars, chunkVars, parseVars, batchVars, clientVars, codecVars>>
    \/ PipeStartTranscription /\ UNCHANGED <<retryVars, chunkVars, parseVars, batchVars, clientVars, codecVars>>
    \/ PipeNextSegment /\ UNCHANGED <<retryVars, chunkVars, parseVars, batchVars, clientVars, codecVars>>
    \/ PipeFinish /\ UNCHANGED <<retryVars, chunkVars, parseVars, batchVars, clientVars, codecVars>>

SpecPipeline == InitPipeline /\ [][PipeNext]_vars

InitClient == CodecIdle /\ RetryIdle /\ ChunkIdle /\ ParseIdle /\ BatchIdle /\ PipeIdle /\ ClientInit

ClientNext ==
    \/ ToolRead /\ UNCHANGED <<retryVars, chunkVars, parseVars, batchVars, pipeVars, codecVars>>
    \/ ToolBuild /\ UNCHANGED <<retryVars, chunkVars, parseVars, batchVars, pipeVars, codecVars>>
    \/ LibraryBuild /\ UNCHANGED <<retryVars, chunkVars, parseVars, batchVars, pipeVars, codecVars>>
    \/ OperationCall /\ UNCHANGED <<retryVars, chunkVars, parseVars, batchVars, pipeVars, codecVars>>
    \/ EnsureClient /\ UNCHANGED <<retryVars, chunkVars, parseVars, batchVars, pipeVars, codecVars>>
    \/ Request /\ UNCHANGED <<retryVars, chunkVars, parseVars, batchVars, pipeVars, codecVars>>
    \/ CallAgain /\ UNCHANGED <<retryVars, chunkVars, parseVars, batchVars, pipeVars, codecVars>>

SpecClient == InitClient /\ [][ClientNext]_vars

InitCodec == RetryIdle /\ ChunkIdle /\ ParseIdle /\ BatchIdle /\ PipeIdle /\ ClientIdle /\ CodecInit

CodecNext ==
    \/ CodecAppend /\ UNCHANGED <<retryVars, chunkVars, parseVars, batchVars, pipeVars, clientVars>>
    \/ CodecSave /\ UNCHANGED <<retryVars, chunkVars, parseVars, batchVars, pipeVars, clientVars>>
    \/ CodecOpen /\ UNCHANGED <<retryVars, chunkVars, parseVars, batchVars, pipeVars, clientVars>>
    \/ CodecRead /\ UNCHANGED <<retryVars, chunkVars, parseVars, batchVars, pipeVars, clientVars>>
    \/ CodecReturn /\ UNCHANGED <<retryVars, chunkVars, parseVars, batchVars, pipeVars, clientVars>>

SpecCodec == InitCodec /\ [][CodecNext]_vars

(***************************************************************************)
(* Claims about _retry                                                     *)
(***************************************************************************)
RetryEnded == r_pc \in {"returned", "raised"}

\* Number of leading invocations on which fn raises, per the plan.
RECURSIVE LeadingFailures(_)
LeadingFailures(i) ==
    IF i > PlanLen \/ plan[i].kind = "ok" THEN 0 ELSE 1 + LeadingFailures(i + 1)

\* C1: if fn raises on its first k invocations and returns a value on the
\* next one, and max_retries >= k, then _retry returns that very value, fn has
\* been invoked exactly k+1 times when it returns, and fn is never invoked
\* more than k+1 times (nothing follows the first success).
C1_RetrySucceeds ==
    LET k == LeadingFailures(1) IN
    (k < PlanLen /\ max_retries >= k) =>
        /\ calls <= k + 1
        /\ r_pc # "raised"
        /\ r_pc = "returned" => (r_result = plan[k + 1].val /\ calls = k + 1)
        /\ calls = k + 1 => r_pc = "returned"

C1_Witness ==
    /\ r_pc = "returned"
    /\ LeadingFailures(1) = 2
    /\ max_retries = 2
    /\ calls = 3

\* C2: if fn raises on each of its first max_retries+1 invocations
\* (max_retries >= 0), _retry invokes fn exactly max_retries+1 times and then
\* raises the exception of the last invocation itself; with max_retries = 0
\* that is one invocation and no sleep-and-retry.
C2_RetryExhausted ==
    (max_retries >= 0 /\ LeadingFailures(1) >= max_retries + 1) =>
        /\ calls <= max_retries + 1
        /\ r_pc # "returned"
        /\ r_pc = "raised" =>
              /\ calls = max_retries + 1
              /\ r_error = plan[max_retries + 1].val
        /\ (max_retries = 0 /\ RetryEnded) => (calls = 1 /\ sleeps = 0)

C2_Witness ==
    /\ r_pc = "raised"
    /\ max_retries = 2
    /\ calls = 3
    /\ plan[1].val # plan[3].val
    /\ r_error = plan[3].val

(***************************************************************************)
(* Claims about the chunk partition                                        *)
(***************************************************************************)
RECURSIVE Concat(_)
Concat(ss) == IF ss = <<>> THEN <<>> ELSE Head(ss) \o Concat(Tail(ss))

\* C3: for every chunk size c >= 1 and every input list, the chunks yielded so
\* far concatenate, in yield order, to a prefix of the input, and once the
\* generator is exhausted to the input list itself: same elements, same order,
\* same count.  A generator called with c >= 1 never raises.
C3_ChunkRoundTrip ==
    c_size >= 1 =>
        /\ Len(Concat(c_yielded)) <= Len(c_items)
        /\ Concat(c_yielded) = SubSeq(c_items, 1, Len(Concat(c_yielded)))
        /\ c_pc = "done" => Concat(c_yielded) = c_items
        /\ c_pc # "error"

C3_Witness ==
    /\ c_pc = "done"
    /\ c_kind = "_iter_alignment_chunks"
    /\ c_size = 2
    /\ c_items = <<"a", "b", "a">>
    /\ Len(c_yielded) = 2

(***************************************************************************)
(* Claims about response application                                       *)
(***************************************************************************)
\* Whether some entry of the response is matched by index idx.
Matched(idx) == Lookup(p_raw.items, idx) # 0

\* Entries as a provider following the prompt sends them: dicts whose index
\* is a number and whose text, start and end, where present, are a string and
\* numbers.
WellTyped(e) ==
    /\ e.dict
    /\ e.index.t = "num"
    /\ e.text.t \in {"str", "absent"}
    /\ e.start.t \in {"num", "absent"}
    /\ e.end.t \in {"num", "absent"}

\* C4: for every batch and every response that is a JSON array, after the
\* parser ran (returned or raised) a segment whose index matches no entry has
\* every field as before the call; and an array of well-typed entries is
\* applied without an error although it leaves indices of the batch unmatched.
C4_UnmatchedKept ==
    (p_pc \in {"done", "error"} /\ p_raw.t = "array") =>
        /\ \A i \in 1 .. Len(p_before) :
              ~Matched(p_before[i].index) => p_batch[i] = p_before[i]
        /\ Len(p_batch) = Len(p_before)
        /\ (\A k \in 1 .. Len(p_raw.items) : WellTyped(p_raw.items[k])) => p_pc = "done"

\* The response [{"index":2,"text":"X"}] applied to segments 1, 2, 3.
C4_Witness ==
    /\ p_pc = "done"
    /\ p_raw = JArray(<<Entry(JNum(2), JStr(<<"X">>), Absent, Absent)>>)
    /\ Len(p_before) = 3
    /\ \A k \in 1 .. 3 : p_before[k].index = k
    /\ p_batch[1] = p_before[1]
    /\ p_batch[3] = p_before[3]
    /\ p_batch[2].text = JStr(<<"X">>)
    /\ p_before[2].text # JStr(<<"X">>)

(***************************************************************************)
(* Claims about translate() and align()                                    *)
(***************************************************************************)
\* C8: when translate() returns, the list it returns holds the input's
\* Segment objects, each once and in input order: as many segments as the
\* input, the same index values in the same order, and no field other than
\* text differs from before the call.
C8_TranslatePreserves ==
    (b_op = "translate" /\ b_pc = "returned") =>
        /\ Len(Returned) = Len(b_input)
        /\ b_result = Places(Len(b_input))
        /\ \A i \in 1 .. Len(b_input) :
              Returned[i] = [b_input[i] EXCEPT !.text = Returned[i].text]

C8_Witness ==
    /\ b_op = "translate"
    /\ b_pc = "returned"
    /\ Len(b_input) = 3
    /\ Len(TheChunks) = 2
    /\ \E i \in 1 .. 3 : Returned[i].text # b_input[i].text

\* C9: when align() returns, every returned segment's text equals the text
\* the segment had before the call.
C9_AlignKeepsText ==
    (b_op = "align" /\ b_pc = "returned") =>
        /\ Len(Returned) = Len(b_input)
        /\ \A i \in 1 .. Len(b_input) : Returned[i].text = b_input[i].text

\* C10: every provider request of align() carries the complete reference
\* list in its original order, whichever chunk it is for; the segments it
\* carries are those of that chunk only.
C10_WholeReference ==
    (b_op = "align" /\ b_pc = "request") =>
        /\ b_request.reference = RefData(b_reference)
        /\ Len(b_request.segments) = Len(TheChunks[b_k])
        /\ b_request.segments = SegData(At(b_segments, TheChunks[b_k]))

C10_Witness ==
    /\ b_op = "align"
    /\ b_pc = "request"
    /\ b_k = 2
    /\ Len(b_reference) = 2
    /\ Len(b_request.segments) = 1
    /\ Len(b_request.reference) = 2

(***************************************************************************)
(* Claims about the pipeline                                               *)
(***************************************************************************)
PipeEnded == t_pc \in {"returned", "raised"}

\* C5: once the detector has returned an empty list, transcribe() has failed
\* with the "no speech detected" error, the detector has been called exactly
\* once, no clip has been cut, and neither batch_transcribe nor the
\* transcriber's transcribe has been called.
C5_NoSpeech ==
    (t_calls.detect > 0 /\ t_detected = <<>> /\ t_error # "DetectError") =>
        /\ t_pc = "raised"
        /\ t_error = "NoSpeech"
        /\ t_calls.detect = 1
        /\ t_calls.cut = 0
        /\ t_calls.batch_transcribe = 0
        /\ t_calls.transcribe = 0

C5_Witness ==
    /\ t_pc = "raised"
    /\ t_error = "NoSpeech"
    /\ t_calls.detect = 1
    /\ t_detected = <<>>

\* The places of the segments whose text is not blank, in list order.
RECURSIVE TextBearing(_, _)
TextBearing(segs, i) ==
    IF i > Len(segs) THEN <<>>
    ELSE (IF Strip(segs[i].text.s) # <<>> THEN <<i>> ELSE <<>>) \o TextBearing(segs, i + 1)

\* C6: when transcribe() returns, its result is exactly the detected segments
\* whose text is non-empty after stripping whitespace, in the detector's
\* order; blank ones are left out and that raised nothing.
C6_FilterBlank ==
    t_pc = "returned" =>
        /\ t_result = TextBearing(t_segments, 1)
        /\ Len(t_segments) = Len(t_detected)
        /\ \A i \in 1 .. Len(PipeReturned) : Strip(PipeReturned[i].text.s) # <<>>
        /\ t_error = None

C6_Witness ==
    /\ t_pc = "returned"
    /\ Len(t_segments) = 3
    /\ t_segments[1].text = JStr(<<SP>>)
    /\ t_segments[2].text = JStr(<<SP, "b", SP>>)
    /\ t_segments[3].text = JStr(<<>>)
    /\ t_result = <<2>>

\* C7: whenever transcribe() has ended after the scratch directory was made,
\* by return or by any of its errors, the directory is removed and no file of
\* it is left.
C7_ScratchRemoved ==
    (PipeEnded /\ t_exists) =>
        /\ t_tmpdir = "removed"
        /\ t_files = {}

C7_Witness ==
    /\ t_pc = "raised"
    /\ t_error = "TranscribeError"
    /\ t_calls.cut = 2
    /\ t_calls.transcribe = 2
    /\ t_tmpdir = "removed"

(***************************************************************************)
(* Claims about the chunk partition helpers, continued                     *)
(***************************************************************************)
ChunkEnded == c_pc \in {"done", "error"}

\* C15: for each partition helper, a chunk size <= 0 or >= L yields exactly
\* one chunk and that chunk holds all L items, for every input length L.
C15_SingleChunk ==
    (ChunkEnded /\ (c_size <= 0 \/ c_size >= Len(c_items))) =>
        /\ c_pc = "done"
        /\ c_yielded = <<c_items>>

\* Python's ceil(a / b) for a >= 0, b >= 1.
CeilDiv(a, b) == (a + b - 1) \div b

\* C16: for every chunk size c >= 1 and input length L >= 1 the partition
\* ends normally and yields exactly ceil(L/c) chunks; chunk k is the
\* contiguous run of the input from item (k-1)c + 1 on, non-empty, of exactly
\* c items except for the last, which has between 1 and c items.
C16_ChunkSizes ==
    (ChunkEnded /\ c_size >= 1 /\ Len(c_items) >= 1) =>
        LET L == Len(c_items)
            c == c_size
            n == Len(c_yielded)
        IN  /\ c_pc = "done"
            /\ n = CeilDiv(L, c)
            /\ \A k \in 1 .. n :
                  /\ c_yielded[k] = SubSeq(c_items, (k - 1) * c + 1, Min(k * c, L))
                  /\ Len(c_yielded[k]) >= 1
                  /\ Len(c_yielded[k]) <= c
                  /\ k < n => Len(c_yielded[k]) = c

C16_Witness ==
    /\ c_pc = "done"
    /\ c_kind = "_iter_alignment_chunks"
    /\ c_size = 2
    /\ Len(c_items) = 3
    /\ Len(c_yielded) = 2
    /\ Len(c_yielded[2]) = 1

(***************************************************************************)
(* Claims about response application, continued                            *)
(***************************************************************************)
ParseEnded == p_pc \in {"done", "error"}

\* Whether the response has an entry for the index of every segment.
CoversBatch == \A i \in 1 .. Len(p_before) : Matched(p_before[i].index)

\* C17: for each of the three parsers, every batch and every response that
\* has an entry for every index of the batch: applying the response to the
\* batch as the first application left it changes no field of any segment
\* and ends as the first application did.
C17_Idempotent ==
    (ParseEnded /\ p_raw.t = "array" /\ CoversBatch) =>
        /\ ParseResult.batch = p_batch
        /\ ParseResult.err = p_error

C17_Witness ==
    /\ p_pc = "done"
    /\ p_kind = "transcriber"
    /\ Len(p_before) = 2
    /\ p_before[1].index = 1
    /\ p_before[2].index = 2
    /\ CoversBatch
    /\ p_batch[1].text = JStr(<<"Y">>)
    /\ p_batch[2].text = JStr(<<"X">>)
    /\ ParseResult.batch = p_batch

(***************************************************************************)
(* Claims about the batch operations                                       *)
(***************************************************************************)
\* The step in which the answer for the current chunk is parsed without an
\* error: the chunk's usage is added and exported.
ChunkProcessed == b_pc = "request" /\ r_pc = "returned" /\ b_pc' # "raised"

\* What the stats mapping held for a counter after chunk b_k - 1 of this call.
TotalBefore(counter) == IF b_k = 1 THEN 0 ELSE b_stats[counter]

\* C11: in translate, align and batch_transcribe, the step that processes
\* chunk k leaves in the caller's stats mapping, for tokens_in and for
\* tokens_out, what it held after chunk k - 1 (nothing counted before chunk 1)
\* plus the Usage returned for chunk k, so after each chunk it holds the sum
\* for chunks 1..k; no other step changes the mapping; and neither the
\* running total nor, from the first export on, the mapping ever decreases.
C11_ProgressiveUsage ==
    [][ /\ (ChunkProcessed /\ b_stats.given) =>
              /\ b_stats'.has
              /\ b_stats'.tokens_in = TotalBefore("tokens_in") + r_result.usage.tokens_in
              /\ b_stats'.tokens_out = TotalBefore("tokens_out") + r_result.usage.tokens_out
        /\ ~ChunkProcessed => b_stats' = b_stats
        /\ ~b_stats.given => b_stats' = b_stats
        /\ b_usage'.tokens_in >= b_usage.tokens_in
        /\ b_usage'.tokens_out >= b_usage.tokens_out
        /\ (b_k > 1 /\ b_stats.given) =>
              /\ b_stats'.tokens_in >= b_stats.tokens_in
              /\ b_stats'.tokens_out >= b_stats.tokens_out ]_vars

\* Two chunks processed, answered with Usage(1, 2) and Usage(2, 1).
C11_Witness ==
    /\ b_op = "batch_transcribe"
    /\ b_pc = "yield"
    /\ b_k = 2
    /\ Len(TheChunks) = 3
    /\ b_stats = StatsOf(Usage(3, 3))
    /\ b_usage = Usage(3, 3)

\* C12: in each of the three operations, a provider error reaches the caller
\* only after the provider was called max_retries + 1 times for the chunk.
C12_RetryEveryDispatch ==
    (b_pc = "raised" /\ b_error \in Excs) => calls = default_retries + 1

\* The chunk argument is an integer <= 0.
NonPositiveChunk == b_chunk # NoInt /\ IntOf(b_chunk) <= 0

\* What a request carries for the given segments.
RequestData(segs) == IF b_op = "batch_transcribe" THEN ClipData(segs) ELSE SegData(segs)

\* The k-th run of d consecutive segments of the segments argument.
Run(k, d) == SubSeq(b_segments, (k - 1) * d + 1, Min(k * d, Len(b_segments)))

\* The number of requests for L segments in runs of d: ceil(L/d); for no
\* segments none, except that align then makes one request, without segments.
RunCount(op, L, d) ==
    IF L = 0 THEN (IF op = "align" THEN 1 ELSE 0) ELSE CeilDiv(L, d)

\* C13 as stated: with chunk <= 0 and L >= 1 segments, exactly one request is
\* made and it carries all L segments.
C13_WholeInput ==
    (NonPositiveChunk /\ Len(b_input) >= 1) =>
        /\ b_pc = "request" => (b_sent = 1 /\ Len(b_request.segments) = Len(b_input))
        /\ b_pc = "returned" => b_sent = 1

\* C13, amended: with chunk <= 0 the operation uses its default chunk size d
\* (2000 for translate and align, 20 for batch_transcribe): request k carries
\* the k-th run of d consecutive segments, and for L >= 1 segments ceil(L/d)
\* requests are made in all; so one request carrying all L segments is made
\* exactly when L <= d.
C13_DefaultWhenNonPositive ==
    NonPositiveChunk =>
        /\ b_pc = "request" =>
              /\ b_sent = b_k
              /\ b_request.segments = RequestData(Run(b_k, DefaultChunk(b_op)))
        /\ b_pc = "returned" => b_sent = RunCount(b_op, Len(b_input), DefaultChunk(b_op))

C13_Witness ==
    /\ NonPositiveChunk
    /\ b_op = "batch_transcribe"
    /\ b_pc = "request"
    /\ Len(b_input) = transcriber_default_chunk + 1
    /\ b_sent = 2
    /\ Len(b_request.segments) = 1

\* No chunk argument is passed to translate or align.
NoChunkArgument == b_op \in {"translate", "align"} /\ b_chunk = NoInt

\* C14 as stated: translate and align called without a chunk value make one
\* request, carrying the whole input, whatever its length.
C14_WholeByDefault ==
    NoChunkArgument =>
        /\ b_pc = "request" => (b_sent = 1 /\ Len(b_request.segments) = Len(b_input))
        /\ b_pc = "returned" => b_sent <= 1

\* C14, amended: translate and align called without a chunk value split the
\* input into runs of default_chunk = 2000 segments, one request per run
\* (ceil(L/2000) requests for L >= 1 segments): the whole input goes into a
\* single request exactly when L <= 2000.
C14_DefaultChunk ==
    NoChunkArgument =>
        /\ b_pc = "request" =>
              /\ b_sent = b_k
              /\ b_request.segments = SegData(Run(b_k, default_chunk))
              /\ Len(b_request.segments) <= default_chunk
        /\ b_pc = "returned" => b_sent = RunCount(b_op, Len(b_input), default_chunk)

C14_Witness ==
    /\ NoChunkArgument
    /\ b_op = "translate"
    /\ b_pc = "request"
    /\ Len(b_input) = default_chunk + 1
    /\ b_sent = 2
    /\ b_request.segments = SegData(<<b_segments[default_chunk + 1]>>)

\* The provider call for the current chunk has returned text that is not
\* valid JSON.
ReturnedInvalid == b_pc = "request" /\ r_pc = "returned" /\ r_result.raw.t = "invalid"

\* C18: once the provider call of a chunk has returned text that is not valid
\* JSON, the next step of the operation raises the JSON error to the caller:
\* the provider is not called again, no request is made again, the chunk has
\* been requested once, and if the first call was the one that returned, the
\* provider has been called exactly once for the chunk.
C18_InvalidJsonNotRetried ==
    [][ ReturnedInvalid =>
          /\ b_pc' = "raised"
          /\ b_error' = "JSONDecodeError"
          /\ calls' = calls
          /\ b_sent' = b_sent
          /\ b_sent' = b_k'
          /\ attempt = 0 => calls' = 1 ]_vars

C18_Witness ==
    /\ b_op = "translate"
    /\ b_pc = "raised"
    /\ b_error = "JSONDecodeError"
    /\ b_k = 2
    /\ b_sent = 2
    /\ calls = 1

(***************************************************************************)
(* Claims about malformed responses and about re-indexing                  *)
(***************************************************************************)
\* The response is valid JSON without the expected shape: not an array, or
\* an array with an element that is not an object, or with an entry that
\* matches a segment's index and has no text.
LacksShape ==
    \/ p_raw.t \in {"object", "string", "number", "null"}
    \/ /\ p_raw.t = "array"
       /\ \/ \E k \in 1 .. Len(p_raw.items) : ~p_raw.items[k].dict
          \/ \E i \in 1 .. Len(p_before) :
                /\ Matched(p_before[i].index)
                /\ p_raw.items[Lookup(p_raw.items, p_before[i].index)].text.t = "absent"

\* C19: each of the three parsers, given a response that is valid JSON but
\* lacks the expected shape, raises an error to its caller.
C19_MissingFieldsRaise == (ParseEnded /\ LacksShape) => p_pc = "error"

\* C20: when batch_transcribe is called, whatever index values the detector
\* assigned to its N >= 1 segments, the segment at list position i carries
\* index i and the path of its own clip, a file of the scratch directory that
\* no other segment has.
C20_Reindexed ==
    t_pc = "transcribe" =>
        /\ Len(t_segments) = Len(t_detected)
        /\ Len(t_segments) >= 1
        /\ \A i \in 1 .. Len(t_segments) :
              /\ t_segments[i].index = i
              /\ t_segments[i].audio = SegPath(i)
              /\ t_segments[i].audio \in t_files
              /\ \A j \in 1 .. Len(t_segments) :
                    j # i => t_segments[j].audio # t_segments[i].audio

\* The detector gave every one of its three segments the index 1.
C20_Witness ==
    /\ t_pc = "transcribe"
    /\ t_next = 1
    /\ Len(t_detected) = 3
    /\ \A k \in 1 .. 3 : t_detected[k].index = 1
    /\ \A k \in 1 .. 3 : t_segments[k].index = k

(***************************************************************************)
(* Claims about the pipeline's result, errors and progress                 *)
(***************************************************************************)
\* C21: when transcribe() returns, the segments it returns carry the index
\* values 1..N, N being the number of segments returned, and are in
\* ascending order of start.
C21_IndicesOneToN ==
    t_pc = "returned" =>
        /\ \A i \in 1 .. Len(PipeReturned) : PipeReturned[i].index = i
        /\ \A i \in 1 .. Len(PipeReturned) : \A j \in 1 .. Len(PipeReturned) :
              i < j => PipeReturned[i].start < PipeReturned[j].start

\* C22: at every point of transcribe() the segments are the detector's, one
\* for one, with the start and end the detector returned; so every returned
\* segment has the start and end of the detected interval at its place.
C22_TimesKept ==
    /\ Len(t_segments) = Len(t_detected)
    /\ \A i \in 1 .. Len(t_segments) :
          /\ t_segments[i].start = t_detected[i].start
          /\ t_segments[i].end = t_detected[i].end
    /\ t_pc = "returned" =>
          \A i \in 1 .. Len(t_result) :
              /\ PipeReturned[i].start = t_detected[t_result[i]].start
              /\ PipeReturned[i].end = t_detected[t_result[i]].end

\* The sample's four intervals, each transcribed to non-blank text.
C22_Witness ==
    /\ t_pc = "returned"
    /\ t_detected = SampleDetection
    /\ Len(PipeReturned) = 4
    /\ \A i \in 1 .. 4 :
          /\ PipeReturned[i].index = i
          /\ PipeReturned[i].start = ExpectedIntervals[i][1]
          /\ PipeReturned[i].end = ExpectedIntervals[i][2]
          /\ Strip(PipeReturned[i].text.s) # <<>>

AllBlank == \A i \in 1 .. Len(t_segments) : Strip(t_segments[i].text.s) = <<>>

Reported(event) == \E k \in 1 .. Len(t_events) : t_events[k] = event

\* C23: transcribe() never returns an empty list; once every segment the
\* transcriber yielded has been consumed and all texts are blank it has
\* failed with the "no subtitle lines" error; and that error is raised only
\* after all segments were consumed, all blank, with no completion status
\* reported.
C23_NoSubtitleLines ==
    /\ t_pc = "returned" => Len(PipeReturned) >= 1
    /\ (PipeEnded /\ t_calls.batch_transcribe = 1 /\ t_completed = Len(t_segments) /\ AllBlank)
          => (t_pc = "raised" /\ t_error = "NoSubtitleLines")
    /\ t_error = "NoSubtitleLines" =>
          /\ t_pc = "raised"
          /\ t_completed = Len(t_segments)
          /\ t_calls.transcribe = Len(t_segments)
          /\ AllBlank
          /\ t_result = <<>>
          /\ ~Reported(Status("Transcription completed."))

C23_Witness ==
    /\ t_error = "NoSubtitleLines"
    /\ t_reporter
    /\ Len(t_segments) = 3
    /\ t_completed = 3
    /\ t_segments[1].text = JStr(<<SP>>)
    /\ t_segments[2].text = JStr(<<>>)

\* C24: when input_media does not exist, transcribe() has raised the
\* not-found error as soon as it has taken a step: no scratch directory was
\* made, the reporter was not called, no collaborator was invoked.
C24_InputCheckedFirst ==
    (~t_exists /\ t_pc \notin {"idle", "start"}) =>
        /\ t_pc = "raised"
        /\ t_error = "FileNotFoundError"
        /\ t_tmpdir = "none"
        /\ t_files = {}
        /\ t_events = <<>>
        /\ t_calls = NoCalls

C24_Witness ==
    /\ ~t_exists
    /\ t_reporter
    /\ t_pc = "raised"
    /\ t_error = "FileNotFoundError"

IsProgress(event) == event.kind = "progress"

ProgressEvents == SelectSeq(t_events, IsProgress)

\* C25: with a reporter, the progress events are none before batch_transcribe
\* is called and from then on exactly (0, N), (1, N), ..., (completed, N), N
\* the number of segments; completed counts every result yielded, kept or
\* dropped as blank, never exceeds N, and is N when the generator is
\* exhausted.
C25_ProgressEvents ==
    /\ t_completed <= Len(t_segments)
    /\ t_pc = "transcribe" => t_completed = t_next - 1
    /\ (t_pc = "returned" \/ t_error = "NoSubtitleLines") => t_completed = Len(t_segments)
    /\ t_reporter =>
          IF t_calls.batch_transcribe = 0
          THEN ProgressEvents = <<>>
          ELSE ProgressEvents =
                   [k \in 1 .. t_completed + 1 |-> Progress(k - 1, Len(t_segments))]

\* Three segments, the first dropped as blank: the last event is (3, 3).
C25_Witness ==
    /\ t_reporter
    /\ t_pc = "returned"
    /\ Len(t_segments) = 3
    /\ Strip(t_segments[1].text.s) = <<>>
    /\ Len(t_result) = 2
    /\ Len(ProgressEvents) = 4
    /\ ProgressEvents[4] = Progress(3, 3)

\* C27: when transcribe() fails because the transcriber's credential is
\* missing, nothing has been converted, detected or cut, and the scratch
\* directory was never made.
C27_ConfigErrorBeforeIO ==
    t_error = "MissingCredential" =>
        /\ t_calls.convert = 0
        /\ t_calls.detect = 0
        /\ t_calls.cut = 0
        /\ t_tmpdir = "none"

(***************************************************************************)
(* Claims about credentials, the client and the tools' options             *)
(***************************************************************************)
\* C26: a cached client was created with the explicit key if one was given
\* at construction, whatever the environment holds, and with the
\* environment's key otherwise; a request is only made with a client; when
\* neither key is present the call ends with the configuration error, and
\* that error leaves no client cached and no provider request issued.
C26_CredentialResolution ==
    /\ k_client # None =>
          k_client = (IF k_api_key # "" THEN k_api_key ELSE "env-key")
    /\ k_pc = "request" => k_client # None
    /\ (k_pc = "ended" /\ k_ops >= 1 /\ k_sdk /\ k_api_key = "" /\ k_env_key = ""
            /\ k_client = None) => k_error = "MissingCredential"
    /\ k_error = "MissingCredential" =>
          /\ k_pc = "ended"
          /\ k_api_key = ""
          /\ k_env_key = ""
          /\ k_client = None
          /\ k_requests = 0

\* No explicit key: the first call failed for want of a key, the variable
\* was then set, and the second call's client carries the environment's key.
C26_Witness ==
    /\ k_sdk
    /\ k_api_key = ""
    /\ k_created = 2
    /\ k_client = "env-key"
    /\ k_requests = 1

\* C28 as stated: no client before the first operation call, and from the
\* first call's _ensure_client on, _create_client has run exactly once.
C28_CreatedExactlyOnce ==
    /\ k_ops = 0 => (k_created = 0 /\ k_client = None)
    /\ k_created <= 1
    /\ (k_ops >= 1 /\ k_pc \in {"request", "ended"}) => k_created = 1

ClientCounts ==
    /\ k_ops = 0 => (k_created = 0 /\ k_client = None)
    /\ k_created <= k_ops
    /\ (k_client = None /\ k_pc \in {"call", "ended"}) => k_created = k_ops
    /\ k_pc = "request" => k_client # None
    /\ k_requests >= 1 => k_client # None

\* C28, amended: constructing a backend creates no client; as long as no
\* client is cached every operation call runs _create_client (a failed
\* creation caches nothing); a request is made with the cached client only;
\* and once a client is cached no later call runs _create_client or replaces
\* the client.
C28_CreatedUntilCached ==
    /\ []ClientCounts
    /\ [][k_client # None => (k_client' = k_client /\ k_created' = k_created)]_vars

\* Three calls: the first failed to create a client, the second created it,
\* the third reused it.
C28_Witness ==
    /\ k_ops = 3
    /\ k_created = 2
    /\ k_client # None
    /\ k_requests = 2
    /\ k_pc = "ended"

\* C29: a run of subtranslator or subaligner does not fail on its own
\* options, the max_retries of its provider requests is the --retries value,
\* and a request makes at most that many attempts plus one.
C29_RetriesApplied ==
    k_caller \in Tools =>
        /\ k_error # "TypeError"
        /\ k_max_retries # NoInt => k_max_retries = SomeInt(k_retries)
        /\ k_attempts <= k_retries + 1

\* C30: when align() returns, every returned segment has end > start and
\* start >= 0, and the returned segments are in non-decreasing order of
\* start.
C30_TimingWellFormed ==
    (b_op = "align" /\ b_pc = "returned") =>
        /\ \A i \in 1 .. Len(Returned) :
              /\ Returned[i].end > Returned[i].start
              /\ Returned[i].start >= 0
        /\ \A i \in 1 .. Len(Returned) - 1 : Returned[i].start <= Returned[i + 1].start

(***************************************************************************)
(* Claims about the backoff and the number of attempts of _retry           *)
(***************************************************************************)
\* C34: every sleep of _retry lasts the same fixed delay; when an attempt is
\* about to be made as many sleeps as attempts have gone before it (none
\* before the first), and when _retry has ended after a >= 1 attempts, by a
\* success or by the final failure, it has slept exactly a - 1 times.
C34_ConstantBackoff ==
    /\ slept = sleeps * retry_delay
    /\ calls = 0 => sleeps = 0
    /\ r_pc = "call" => sleeps = calls
    /\ r_pc = "sleep" => sleeps = calls - 1
    /\ (RetryEnded /\ calls >= 1) => sleeps = calls - 1

\* Three failed attempts with max_retries = 2: two sleeps, none after the last.
C34_Witness ==
    /\ r_pc = "raised"
    /\ max_retries = 2
    /\ calls = 3
    /\ sleeps = 2
    /\ slept = 2 * retry_delay

\* C37: whatever the retries value, when _retry has ended fn has been invoked
\* at least once, and an error _retry raised is the exception fn raised last.
C37_AtLeastOneAttempt ==
    RetryEnded =>
        /\ calls >= 1
        /\ r_pc = "raised" => (r_error \in Excs /\ r_error = last_exc)

(***************************************************************************)
(* Claims about the work and the accounting of a batch operation           *)
(***************************************************************************)
\* C35: when a batch operation has returned, the token counts of a stats
\* mapping the caller passed are the totals of that call, whatever the
\* mapping held before (a mapping without counts reads as zero).
C35_StatsOfThisCall ==
    (b_pc = "returned" /\ b_stats.given) =>
        /\ b_stats.tokens_in = b_usage.tokens_in
        /\ b_stats.tokens_out = b_usage.tokens_out

\* C36: for L segments and chunk size c >= 1 a batch operation issues at most
\* ceil(L/c) provider requests, and each request invokes the provider at most
\* max_retries + 1 times.
C36_BoundedWork ==
    /\ b_sent <= CeilDiv(Len(b_input), chunk_size)
    /\ calls <= max_retries_of(NoInt) + 1

\* Some provider call of the operation has returned an answer.
SomeCallReturned == b_k >= 2 \/ r_pc = "returned"

\* The summed Usage of the provider calls that have returned so far: that of
\* the chunks processed, and that of the answer at hand.
Received ==
    IF r_pc = "returned"
    THEN Usage(b_usage.tokens_in + r_result.usage.tokens_in,
               b_usage.tokens_out + r_result.usage.tokens_out)
    ELSE b_usage

\* C39: the step that ends a batch operation in which a provider call has
\* returned, normally or by an error, leaves in the caller's stats mapping
\* the summed Usage of all the provider calls that returned, the call whose
\* answer failed to parse included.
C39_EveryCallAccounted ==
    [][(b_stats.given /\ SomeCallReturned /\ b_pc \notin {"returned", "raised"}
            /\ b_pc' \in {"returned", "raised"})
          => b_stats' = StatsOf(Received)]_vars

\* C40: called with an empty segment list, a batch operation issues no
\* provider request, leaves the stats mapping as it was and returns nothing.
C40_EmptyNoRequest ==
    [][b_input = <<>> => (b_sent' = 0 /\ b_stats' = b_stats /\ b_result' = <<>>)]_vars

(***************************************************************************)
(* Claims about the order of the chunks and about partial failure          *)
(***************************************************************************)
\* Number of segments in the first j chunks.
RECURSIVE SegmentsIn(_)
SegmentsIn(j) == IF j <= 0 THEN 0 ELSE SegmentsIn(j - 1) + Len(TheChunks[j])

\* The places of the segments of the chunks before chunk k, in order.
PlacesBefore(k) == Places(SegmentsIn(k - 1))

\* C32: requests are issued one chunk at a time, in order: while the request
\* of chunk k is outstanding it is the k-th request made, every segment of
\* the chunks before k has been appended to the result (for batch_transcribe:
\* yielded) and the usage of those chunks has been exported; between two
\* requests the number of requests made equals the number of chunks done; so
\* no request is made while another is outstanding.
C32_Sequential ==
    /\ b_pc = "request" =>
          /\ b_sent = b_k
          /\ b_result = PlacesBefore(b_k)
          /\ (b_k >= 2 /\ b_stats.given) => b_stats = StatsOf(b_usage)
    /\ b_pc = "loop" =>
          /\ b_sent = b_k - 1
          /\ b_result = PlacesBefore(b_k)
    /\ b_pc = "yield" =>
          /\ b_sent = b_k
          /\ Len(b_result) >= SegmentsIn(b_k - 1)
          /\ Len(b_result) < SegmentsIn(b_k)
          /\ b_result = Places(Len(b_result))

\* batch_transcribe with chunks of two: the second request is outstanding and
\* both segments of the first chunk have been yielded.
C32_Witness ==
    /\ b_op = "batch_transcribe"
    /\ b_pc = "request"
    /\ b_k = 2
    /\ b_sent = 2
    /\ Len(TheChunks[1]) = 2
    /\ b_result = <<1, 2>>

\* The operation raised while processing chunk b_k (its client existed).
RaisedInChunk == b_pc = "raised" /\ b_client # None

RaisedFrame ==
    RaisedInChunk =>
        /\ b_sent <= b_k
        /\ b_result = PlacesBefore(b_k)
        /\ \A p \in (SegmentsIn(b_k) + 1) .. Len(b_segments) : b_segments[p] = b_input[p]

\* C38: when a batch operation has raised while processing chunk k, no
\* request was issued for a chunk after k, the segments of the chunks after k
\* are as they were when the call began, the result held the chunks before k,
\* and the step that raised left the segments of the chunks before k as their
\* responses had set them.
C38_PrefixApplied ==
    /\ []RaisedFrame
    /\ [][(b_pc # "raised" /\ b_pc' = "raised" /\ b_client # None) =>
             \A p \in 1 .. SegmentsIn(b_k - 1) : b_segments'[p] = b_segments[p]]_vars

\* translate with chunks of one: the first chunk was translated, the second
\* chunk's request failed, the third segment is untouched.
C38_Witness ==
    /\ b_op = "translate"
    /\ b_pc = "raised"
    /\ b_k = 2
    /\ Len(b_input) = 3
    /\ Len(TheChunks) = 3
    /\ b_segments[1].text # b_input[1].text
    /\ b_segments[3] = b_input[3]

(***************************************************************************)
(* Claim about the order of the pipeline's stages                          *)
(***************************************************************************)
\* What a reporter receives in a complete run over n detected segments.
FullReport(n) ==
    <<Status("Converting audio..."),
      Status("Running voice activity detection (VAD)..."),
      Detected(n),
      Status("Cutting audio into clips..."),
      Status("Starting transcription...")>>
    \o [k \in 1 .. n + 1 |-> Progress(k - 1, n)]
    \o <<Status("Transcription completed.")>>

\* C33: conversion has been called once before detection is, detection once
\* and with a non-empty result before the first cut, and all N clips have
\* been cut before batch_transcribe and the transcriber are called; a
\* reporter has received a prefix of the full report in its order, each
\* stage's status no later than the stage's first collaborator call and no
\* earlier than the end of the stage before; and the completion status is
\* the last event, after the progress event (N, N).
C33_StageOrder ==
    /\ t_calls.detect >= 1 => t_calls.convert = 1
    /\ t_calls.cut >= 1 => (t_calls.detect = 1 /\ Len(t_detected) >= 1)
    /\ t_calls.batch_transcribe >= 1 =>
          (t_calls.cut = Len(t_segments) /\ t_calls.batch_transcribe = 1)
    /\ t_calls.transcribe >= 1 => t_calls.batch_transcribe = 1
    /\ t_reporter =>
          /\ Len(t_events) <= Len(FullReport(Len(t_detected)))
          /\ t_events = SubSeq(FullReport(Len(t_detected)), 1, Len(t_events))
          /\ t_calls.convert >= 1 <=> Len(t_events) >= 1
          /\ t_calls.detect >= 1 <=> Len(t_events) >= 2
          /\ t_calls.cut >= 1 => Len(t_events) >= 4
          /\ Len(t_events) >= 5 <=> t_calls.batch_transcribe >= 1
          /\ t_calls.transcribe >= 1 => Len(t_events) >= 6
          /\ Reported(Status("Transcription completed.")) <=> t_pc = "returned"
          /\ t_pc = "returned" =>
                t_events[Len(t_events) - 1] = Progress(Len(t_segments), Len(t_segments))

\* A complete run over three segments with a reporter.
C33_Witness ==
    /\ t_reporter
    /\ t_pc = "returned"
    /\ Len(t_detected) = 3
    /\ t_calls.cut = 3
    /\ t_events = FullReport(3)

(***************************************************************************)
(* Claim about the subtitle codec                                          *)
(***************************************************************************)
\* C31: the k-th item of the subtitle segments_to_srt builds (and of the
\* file saved from it) carries index k, and so does the k-th segment
\* srt_to_segments returns, whatever the indices of the input were.
C31_Renumbered ==
    /\ \A k \in 1 .. Len(f_srt) : f_srt[k].index = k
    /\ \A k \in 1 .. Len(f_file) : f_file[k].index = k
    /\ \A k \in 1 .. Len(f_read) : f_read[k].index = k

====
